---------------------------- MODULE Spec2Model ----------------------------
(***************************************************************************)
(* Model of the criage package manager core (PackageManager in the Go      *)
(* sources): the in-memory registry installedPackages, the two persisted   *)
(* partition documents (GlobalPath/packages.json, LocalPath/packages.json),*)
(* the install directories, the resolver (findPackage/findInRepository)    *)
(* and the lifecycle handlers InstallPackage, UninstallPackage,            *)
(* UpdatePackage and GetPackageInfo.                                       *)
(*                                                                         *)
(* Two specifications are given.  Spec is the program as implemented: the  *)
(* archive extraction step is the stub extractArchive, which always        *)
(* fails.  SpecCodec is the same program with the stub replaced by an      *)
(* archive codec that can succeed or fail; it is the only way to exercise  *)
(* the code of InstallPackage that follows the extraction step.            *)
(***************************************************************************)
EXTENDS Integers, Sequences, FiniteSets, TLC

(***************************************************************************)
(* Bounds of the model.                                                    *)
(***************************************************************************)
MaxNames == 2

MaxVersions == 2

\* the longest run of handler calls explored
MaxOps == 2

\* version == "" : no version requested
NoVersion == 0

PackageNames == 1..MaxNames

Versions == 1..MaxVersions

\* runtime.GOOS / runtime.GOARCH of the running process
GOOS == "linux"

GOARCH == "amd64"

(***************************************************************************)
(* State.                                                                  *)
(*   config            pm.config (only Repositories is modelled)           *)
(*   installedPackages pm.installedPackages: Go map name -> *PackageInfo   *)
(*   packagesJson      the two partition documents, indexed by the global  *)
(*                     flag: packagesJson[TRUE] is GlobalPath/packages.json*)
(*   installDirs       the install directories that exist on disk (under   *)
(*                     SpecTemp: the paths that exist under TempPath)      *)
(*   last              the last handler call: its arguments, its result    *)
(*                     and the outbound calls it made                      *)
(*   ops               the number of handler calls made (bounded runs)     *)
(*   remote            what each configured repository serves, by position *)
(*                     in pm.config.Repositories                           *)
(*   threads           the handler calls in flight on concurrent           *)
(*                     goroutines, each with its position in the code      *)
(*                     (under SpecServer: the main goroutine, in Run)      *)
(*   rateLimiter       pm.rateLimiter: the ticker, the permit channel and  *)
(*                     the callers of Wait                                 *)
(*   packagesMutex     pm.packagesMutex: the goroutine holding it for      *)
(*                     writing (0: none) and those holding it for reading  *)
(***************************************************************************)
VARIABLES config, installedPackages, packagesJson, installDirs, last, ops,
          remote, threads, rateLimiter, packagesMutex

vars == <<config, installedPackages, packagesJson, installDirs, last, ops,
          remote, threads, rateLimiter, packagesMutex>>

(***************************************************************************)
(* Go maps: a function whose domain is the key set.                        *)
(***************************************************************************)
EmptyMap == [k \in {} |-> 0]

MapPut(m, k, v) == [x \in (DOMAIN m) \cup {k} |-> IF x = k THEN v ELSE m[x]]

\* A delete that leaves the map as it is.
MapDeleteNothing(m, k) == m

MapDelete(m, k) == [x \in (DOMAIN m) \ {k} |-> m[x]]

\* filepath.Join(GlobalPath or LocalPath, packageName)
getInstallPath(packageName, global) == <<global, packageName>>

\* pm.installedPackages[packageName] under the read lock
getInstalledPackage(packages, packageName) ==
    IF packageName \in DOMAIN packages
    THEN [exists |-> TRUE, info |-> packages[packageName]]
    ELSE [exists |-> FALSE, info |-> EmptyMap]


(***************************************************************************)
(* Resolver.  A repository's answer to GET /api/v1/packages/{name} is a    *)
(* record [ok, error, Name, Versions]: ok is FALSE for every failing       *)
(* branch of findInRepository before the version selection, and error      *)
(* says which one ("transport": httpClient.Do failed, "status": a status   *)
(* other than 200, "decode": an undecodable body, "envelope": success =    *)
(* false or data = null).  Versions is the repository-supplied list of     *)
(* RepositoryVersion, each with its list of RepositoryFile.                *)
(***************************************************************************)
RepositoryFile(os, arch, filename) == [OS |-> os, Arch |-> arch, Filename |-> filename]

RepositoryVersion(version, files) == [Version |-> version, Files |-> files]

\* findPackage's own error: the package was not found
NoResult ==
    [ok |-> FALSE, err |-> "not-found", Name |-> 0, Version |-> NoVersion, Repo |-> 0,
     Filename |-> ""]

\* an error returned by findInRepository
Failure(err) == [NoResult EXCEPT !.err = err]

\* A selection that takes, when no version is requested, the entry with the
\* highest version, and otherwise the last entry with the requested version.
SelectHighestVersion(versions, version) ==
    LET matching == {i \in 1..Len(versions) :
                        version = NoVersion \/ versions[i].Version = version}
    IN IF matching = {}
       THEN 0
       ELSE CHOOSE i \in matching :
                \A j \in matching :
                   \/ versions[j].Version < versions[i].Version
                   \/ (versions[j].Version = versions[i].Version /\ j <= i)

\* lines 900-915: the index of the selected version in the list, 0 when none
SelectVersion(versions, version) ==
    IF version = NoVersion
    THEN Len(versions)
    ELSE IF \E i \in 1..Len(versions) : versions[i].Version = version
         THEN CHOOSE i \in 1..Len(versions) :
                  /\ versions[i].Version = version
                  /\ \A j \in 1..(i - 1) : versions[j].Version # version
         ELSE 0

\* A selection that takes the first file listed, whatever its platform.
SelectFirstFile(files, osName, arch) == IF Len(files) > 0 THEN 1 ELSE 0

\* lines 921-928: the index of the first file for the platform, 0 when none
SelectFile(files, osName, arch) ==
    IF \E i \in 1..Len(files) : files[i].OS = osName /\ files[i].Arch = arch
    THEN CHOOSE i \in 1..Len(files) :
             /\ files[i].OS = osName /\ files[i].Arch = arch
             /\ \A j \in 1..(i - 1) : ~(files[j].OS = osName /\ files[j].Arch = arch)
    ELSE 0

\* The result carries the PackageInfo fields the callers read (Name, Version)
\* and the parts of the download URL (repository, name, version, filename).
findInRepository(repo, resp, packageName, version, arch, osName) ==
    IF ~resp.ok
    THEN Failure(resp.error)
    ELSE LET v == SelectVersion(resp.Versions, version)
         IN IF v = 0
            THEN Failure("no-version")
            ELSE LET f == SelectFile(resp.Versions[v].Files, osName, arch)
                 IN IF f = 0
                    THEN Failure("no-file")
                    ELSE [ok |-> TRUE,
                          err |-> "",
                          Name |-> resp.Name,
                          Version |-> resp.Versions[v].Version,
                          Repo |-> repo,
                          Filename |-> resp.Versions[v].Files[f].Filename]

RECURSIVE findPackageStopAtMiss(_, _, _, _, _, _, _, _)
\* A loop that gives up at the first repository that has the package and the
\* version but no file for the platform.
findPackageStopAtMiss(i, repos, world, packageName, version, arch, osName, calls) ==
    IF i > Len(repos)
    THEN [found |-> NoResult, calls |-> calls]
    ELSE IF ~repos[i].Enabled
         THEN findPackageStopAtMiss(i + 1, repos, world, packageName, version, arch, osName,
                                    calls)
         ELSE LET r == findInRepository(i, world[i], packageName, version, arch, osName)
              IN IF r.ok
                 THEN [found |-> r, calls |-> Append(calls, i)]
                 ELSE IF r.err = "no-file"
                      THEN [found |-> NoResult, calls |-> Append(calls, i)]
                      ELSE findPackageStopAtMiss(i + 1, repos, world, packageName, version,
                                                 arch, osName, Append(calls, i))

RECURSIVE findPackageFirstError(_, _, _, _, _, _, _, _)
\* A loop that returns the error of the first repository that fails.
findPackageFirstError(i, repos, world, packageName, version, arch, osName, calls) ==
    IF i > Len(repos)
    THEN [found |-> NoResult, calls |-> calls]
    ELSE IF ~repos[i].Enabled
         THEN findPackageFirstError(i + 1, repos, world, packageName, version, arch, osName,
                                    calls)
         ELSE [found |-> findInRepository(i, world[i], packageName, version, arch, osName),
               calls |-> Append(calls, i)]

RECURSIVE findPackageKeepLooking(_, _, _, _, _, _, _, _)
\* A loop that contacts every enabled repository and returns the last match.
findPackageKeepLooking(i, repos, world, packageName, version, arch, osName, calls) ==
    IF i > Len(repos)
    THEN [found |-> NoResult, calls |-> calls]
    ELSE IF ~repos[i].Enabled
         THEN findPackageKeepLooking(i + 1, repos, world, packageName, version, arch,
                                     osName, calls)
         ELSE LET r == findInRepository(i, world[i], packageName, version, arch, osName)
                  rest == findPackageKeepLooking(i + 1, repos, world, packageName, version,
                                                 arch, osName, Append(calls, i))
              IN IF r.ok /\ ~rest.found.ok
                 THEN [found |-> r, calls |-> rest.calls]
                 ELSE rest

RECURSIVE findPackageRetry(_, _, _, _, _, _, _, _)
\* A loop that asks a repository a second time when its first answer is a
\* failure.
findPackageRetry(i, repos, world, packageName, version, arch, osName, calls) ==
    IF i > Len(repos)
    THEN [found |-> NoResult, calls |-> calls]
    ELSE IF ~repos[i].Enabled
         THEN findPackageRetry(i + 1, repos, world, packageName, version, arch, osName,
                               calls)
         ELSE LET r == findInRepository(i, world[i], packageName, version, arch, osName)
              IN IF r.ok
                 THEN [found |-> r, calls |-> Append(calls, i)]
                 ELSE findPackageRetry(i + 1, repos, world, packageName, version, arch,
                                       osName, Append(Append(calls, i), i))

RECURSIVE findPackageFrom(_, _, _, _, _, _, _, _)
\* The loop of findPackage from list position i on; calls is the sequence of
\* repositories contacted so far.
findPackageFrom(i, repos, world, packageName, version, arch, osName, calls) ==
    IF i > Len(repos)
    THEN [found |-> NoResult, calls |-> calls]
    ELSE IF ~repos[i].Enabled
         THEN findPackageFrom(i + 1, repos, world, packageName, version, arch, osName, calls)
         ELSE LET r == findInRepository(i, world[i], packageName, version, arch, osName)
              IN IF r.ok
                 THEN [found |-> r, calls |-> Append(calls, i)]
                 ELSE findPackageFrom(i + 1, repos, world, packageName, version, arch,
                                      osName, Append(calls, i))

findPackage(repos, world, packageName, version, arch, osName) ==
    findPackageFrom(1, repos, world, packageName, version, arch, osName, <<>>)

(***************************************************************************)
(* Partition documents.  A document is [status, packages]: status is       *)
(* "missing" (no file), "ok" (a JSON object name -> PackageInfo) or        *)
(* "corrupt" (a file json.Unmarshal rejects, such as the truncated file    *)
(* os.WriteFile leaves when it fails after opening with O_TRUNC).          *)
(***************************************************************************)
MissingDoc == [status |-> "missing", packages |-> EmptyMap]

CorruptDoc == [status |-> "corrupt", packages |-> EmptyMap]

OkDoc(packages) == [status |-> "ok", packages |-> packages]

\* os.WriteFile(packagesPath, data, 0644); outcome is what the write did:
\* "ok", "unchanged" (the open failed) or "truncated" (the write failed after
\* the file was truncated).
WriteFile(doc, packages, outcome) ==
    CASE outcome = "ok" -> OkDoc(packages)
      [] outcome = "unchanged" -> doc
      [] OTHER -> CorruptDoc

\* lines 1024-1031 and 1053-1057: os.ReadFile + json.Unmarshal with both
\* errors ignored; nil is TRUE when the map variable is still nil afterwards.
ReadPackages(doc) ==
    IF doc.status = "ok"
    THEN [nil |-> FALSE, packages |-> doc.packages]
    ELSE [nil |-> TRUE, packages |-> EmptyMap]

\* savePackageInfo: read-modify-write of the partition chosen by info.Global,
\* keyed by info.Name.  Returns the documents and whether it returned nil.
savePackageInfo(docs, info, outcome) ==
    LET read == ReadPackages(docs[info.Global])
        packages == MapPut(read.packages, info.Name, info)
    IN [ok |-> outcome = "ok",
        docs |-> [docs EXCEPT ![info.Global] = WriteFile(@, packages, outcome)]]

\* removePackageInfo: read-modify-write of the partition chosen by the global
\* argument; returns nil without writing when no map could be read.
removePackageInfo(docs, packageName, global, outcome) ==
    LET read == ReadPackages(docs[global])
    IN IF read.nil
       THEN [ok |-> TRUE, docs |-> docs]
       ELSE [ok |-> outcome = "ok",
             docs |-> [docs EXCEPT
                          ![global] = WriteFile(@, MapDelete(read.packages, packageName),
                                                outcome)]]

\* loadPackagesFromFile: every entry of the document is stored under its key,
\* replacing an entry already there.
loadPackagesFromFile(packages, doc) ==
    [n \in (DOMAIN packages) \cup (DOMAIN doc.packages) |->
        IF n \in DOMAIN doc.packages THEN doc.packages[n] ELSE packages[n]]

\* loadInstalledPackages: the global document first, then the local one.
loadInstalledPackages(docs) ==
    loadPackagesFromFile(loadPackagesFromFile(EmptyMap, docs[TRUE]), docs[FALSE])

(***************************************************************************)
(* Lifecycle handlers.  A handler is an operator from the registry state   *)
(* st = [installedPackages, packagesJson, installDirs], its arguments and  *)
(* the environment of the call to the state it leaves, its result and the  *)
(* outbound calls it made.  The environment env is                         *)
(*   world     each configured repository's answer for the package         *)
(*   failAt    the I/O step of this call that fails ("none": no step)      *)
(*   manifest  the name and version declared by criage.yaml in the archive *)
(* A handler returns at its first failing step, so one failing step per    *)
(* call covers every path through it.                                      *)
(***************************************************************************)
\* Whether the call site takes a permit before it sends: findInRepository
\* (line 873), searchInRepository (line 1166), uploadPackage (line 1241) and
\* ListRepositoryPackages (line 1470) call pm.rateLimiter.Wait() before
\* pm.httpClient.Do; downloadPackage (line 951) calls pm.httpClient.Get with
\* no Wait before it.
WaitsForPermit(kind) == kind \in {"lookup", "search", "upload", "list"}

Call(kind, repo) == [kind |-> kind, repo |-> repo, permit |-> WaitsForPermit(kind)]

Lookups(repos) == [i \in 1..Len(repos) |-> Call("lookup", repos[i])]

Out(st, result, calls, resolved) ==
    [installedPackages |-> st.installedPackages,
     packagesJson |-> st.packagesJson,
     installDirs |-> st.installDirs,
     result |-> result,
     calls |-> calls,
     resolved |-> resolved]

\* An extraction step that succeeds.
extractArchiveUnpacks == TRUE

\* extractArchive as implemented: a stub that returns an error for any archive.
extractArchive == FALSE

\* An archive codec in place of the stub: it fails only when the environment
\* makes it fail.
unpack(env) == env.failAt # "extract"

\* The write outcome of os.WriteFile in this environment.
WriteOutcome(env) ==
    CASE env.failAt = "write-open" -> "unchanged"
      [] env.failAt = "write-trunc" -> "truncated"
      [] OTHER -> "ok"

\* A check that rejects every unforced install of an installed name.
AlreadyInstalledAnyVersion(packages, packageName, version, force) ==
    ~force /\ getInstalledPackage(packages, packageName).exists

\* lines 542-548: the already-installed check
AlreadyInstalled(packages, packageName, version, force) ==
    /\ ~force
    /\ getInstalledPackage(packages, packageName).exists
    /\ \/ version = NoVersion
       \/ getInstalledPackage(packages, packageName).info.Version = version

\* lines 605-619: the record built from the unpacked manifest
NewPackageInfo(manifest, installPath, global) ==
    [Name |-> manifest.Name,
     Version |-> manifest.Version,
     InstallPath |-> installPath,
     Global |-> global]

\* lines 621-629: the record is persisted, then stored in memory under the
\* requested package name; memory is left alone when persisting failed.
upsert(st, packageName, info, outcome) ==
    LET saved == savePackageInfo(st.packagesJson, info, outcome)
    IN [ok |-> saved.ok,
        st |-> IF saved.ok
               THEN [st EXCEPT !.packagesJson = saved.docs,
                               !.installedPackages = MapPut(@, packageName, info)]
               ELSE [st EXCEPT !.packagesJson = saved.docs]]

\* lines 647-655: the record is removed from the partition chosen by the global
\* argument, then deleted from memory; memory is left alone when that failed.
remove(st, packageName, global, outcome) ==
    LET removed == removePackageInfo(st.packagesJson, packageName, global, outcome)
    IN [ok |-> removed.ok,
        st |-> IF removed.ok
               THEN [st EXCEPT !.packagesJson = removed.docs,
                               !.installedPackages = MapDelete(@, packageName)]
               ELSE [st EXCEPT !.packagesJson = removed.docs]]

\* InstallPackage, lines 540-632.  extracted is the outcome of the extraction
\* step (extractArchive, or the codec's).
InstallPackage(st, repos, packageName, version, global, force, arch, osName, env, extracted) ==
    IF AlreadyInstalled(st.installedPackages, packageName, version, force)
    THEN Out(st, "already-installed", <<>>, NoVersion)
    ELSE
    LET a == IF arch = "" THEN GOARCH ELSE arch
        o == IF osName = "" THEN GOOS ELSE osName
        res == findPackage(repos, env.world, packageName, version, a, o)
        found == res.found
        lookups == Lookups(res.calls)
        fetched == Append(lookups, Call("download", found.Repo))
        installPath == getInstallPath(packageName, global)
        removed == IF force THEN st.installDirs \ {installPath} ELSE st.installDirs
        created == removed \cup {installPath}
        packageInfo == NewPackageInfo(env.manifest, installPath, global)
        saved == upsert([st EXCEPT !.installDirs = created], packageName, packageInfo,
                        WriteOutcome(env))
    IN CASE ~found.ok ->
              Out(st, "not-found", lookups, NoVersion)
         [] env.failAt = "download" ->
              Out(st, "download-error", fetched, found.Version)
         [] ~extracted ->
              Out(st, "extract-error", fetched, found.Version)
         [] env.failAt = "manifest" ->
              Out(st, "manifest-error", fetched, found.Version)
         [] force /\ env.failAt = "removeAll" ->
              Out(st, "remove-error", fetched, found.Version)
         [] env.failAt = "mkdir" ->
              Out([st EXCEPT !.installDirs = removed], "mkdir-error", fetched, found.Version)
         [] env.failAt = "copy" ->
              Out([st EXCEPT !.installDirs = created], "copy-error", fetched, found.Version)
         [] ~saved.ok ->
              Out(saved.st, "save-error", fetched, found.Version)
         [] OTHER ->
              Out(saved.st, "ok", fetched, found.Version)

\* An uninstall whose purge flag also removes the record from memory when the
\* document could not be rewritten.
UninstallPackagePurging(st, packageName, global, purge, env) ==
    LET got == getInstalledPackage(st.installedPackages, packageName)
        removed == remove([st EXCEPT !.installDirs = @ \ {got.info.InstallPath}],
                          packageName, global, WriteOutcome(env))
    IN CASE ~got.exists ->
              Out(st, "not-installed", <<>>, NoVersion)
         [] env.failAt = "removeAll" ->
              Out(st, "remove-error", <<>>, NoVersion)
         [] ~removed.ok /\ purge ->
              Out([removed.st EXCEPT !.installedPackages = MapDelete(@, packageName)],
                  "save-error", <<>>, NoVersion)
         [] ~removed.ok ->
              Out(removed.st, "save-error", <<>>, NoVersion)
         [] OTHER ->
              Out(removed.st, "ok", <<>>, NoVersion)

\* UninstallPackage, lines 635-658.  purge is not read by the code.
UninstallPackage(st, packageName, global, purge, env) ==
    LET got == getInstalledPackage(st.installedPackages, packageName)
        removed == remove([st EXCEPT !.installDirs = @ \ {got.info.InstallPath}],
                          packageName, global, WriteOutcome(env))
    IN CASE ~got.exists ->
              Out(st, "not-installed", <<>>, NoVersion)
         [] env.failAt = "removeAll" ->
              Out(st, "remove-error", <<>>, NoVersion)
         [] ~removed.ok ->
              Out(removed.st, "save-error", <<>>, NoVersion)
         [] OTHER ->
              Out(removed.st, "ok", <<>>, NoVersion)

\* An update without the version comparison: it reinstalls whatever it resolved.
UpdatePackageAlways(st, repos, packageName, env, extracted) ==
    LET got == getInstalledPackage(st.installedPackages, packageName)
        res == findPackage(repos, env.world, packageName, NoVersion, GOARCH, GOOS)
        latest == res.found
        lookups == Lookups(res.calls)
        inner == InstallPackage(st, repos, packageName, latest.Version, got.info.Global,
                                TRUE, "", "", env, extracted)
    IN CASE ~got.exists ->
              Out(st, "not-installed", <<>>, NoVersion)
         [] ~latest.ok ->
              Out(st, "update-not-found", lookups, NoVersion)
         [] OTHER ->
              [inner EXCEPT !.calls = lookups \o @, !.resolved = latest.Version]

\* UpdatePackage, lines 661-681.  The nested InstallPackage resolves again.
UpdatePackage(st, repos, packageName, env, extracted) ==
    LET got == getInstalledPackage(st.installedPackages, packageName)
        res == findPackage(repos, env.world, packageName, NoVersion, GOARCH, GOOS)
        latest == res.found
        lookups == Lookups(res.calls)
        inner == InstallPackage(st, repos, packageName, latest.Version, got.info.Global,
                                TRUE, "", "", env, extracted)
    IN CASE ~got.exists ->
              Out(st, "not-installed", <<>>, NoVersion)
         [] ~latest.ok ->
              Out(st, "update-not-found", lookups, NoVersion)
         [] got.info.Version = latest.Version ->
              Out(st, "already-current", lookups, latest.Version)
         [] OTHER ->
              [inner EXCEPT !.calls = lookups \o @, !.resolved = latest.Version]

\* GetPackageInfo, lines 734-740
GetPackageInfo(st, packageName) ==
    IF getInstalledPackage(st.installedPackages, packageName).exists
    THEN Out(st, "ok", <<>>, NoVersion)
    ELSE Out(st, "not-installed", <<>>, NoVersion)

(***************************************************************************)
(* Inputs of the model.                                                    *)
(***************************************************************************)
\* pm.config.Repositories: three repositories, the first disabled, listed in
\* an order that is not the order of their priorities.
Repositories ==
    << [Name |-> "mirror", Priority |-> 1, Enabled |-> FALSE],
       [Name |-> "main", Priority |-> 3, Enabled |-> TRUE],
       [Name |-> "extra", Priority |-> 2, Enabled |-> TRUE] >>

LinuxFile == RepositoryFile(GOOS, GOARCH, "linux-amd64")

WindowsFile == RepositoryFile("windows", GOARCH, "windows-amd64")

Failing(packageName) ==
    [ok |-> FALSE, error |-> "transport", Name |-> packageName, Versions |-> <<>>]

\* Every version in ascending order, each with a build for the platform.
Ascending(packageName) ==
    [ok |-> TRUE, error |-> "", Name |-> packageName,
     Versions |-> [i \in 1..MaxVersions |-> RepositoryVersion(i, <<LinuxFile>>)]]

\* Every version in descending order, each with a windows and a linux build.
Descending(packageName) ==
    [ok |-> TRUE, error |-> "", Name |-> packageName,
     Versions |-> [i \in 1..MaxVersions |->
                      RepositoryVersion(MaxVersions + 1 - i, <<WindowsFile, LinuxFile>>)]]

\* The first version only, built for windows only.
WindowsOnly(packageName) ==
    [ok |-> TRUE, error |-> "", Name |-> packageName,
     Versions |-> <<RepositoryVersion(1, <<WindowsFile>>)>>]

\* What the three repositories answer during one handler call.  The disabled
\* repository would serve every version in every world.
RemoteWorlds(packageName) ==
    {<<Ascending(packageName), Failing(packageName), Failing(packageName)>>,
     <<Ascending(packageName), Ascending(packageName), Failing(packageName)>>,
     <<Ascending(packageName), Failing(packageName), Descending(packageName)>>,
     <<Ascending(packageName), WindowsOnly(packageName), Ascending(packageName)>>}

FailPoints ==
    {"none", "download", "extract", "manifest", "removeAll", "mkdir", "copy",
     "write-open", "write-trunc"}

Manifests == [Name : PackageNames, Version : Versions]

\* With extractArchive no step after the extraction is reached: the download
\* is the only step whose failure changes the outcome of the call.
StubEnvs(packageName) ==
    {[world |-> w, failAt |-> f, manifest |-> [Name |-> packageName, Version |-> 1]] :
        w \in RemoteWorlds(packageName), f \in {"none", "download"}}

\* With a codec every step can be the failing one.  The manifest is read only
\* when no step fails, so one manifest stands for the failing calls.
CodecEnvs(packageName) ==
    {[world |-> w, failAt |-> "none", manifest |-> m] :
        w \in RemoteWorlds(packageName), m \in Manifests}
    \cup
    {[world |-> w, failAt |-> f, manifest |-> [Name |-> packageName, Version |-> 1]] :
        w \in RemoteWorlds(packageName), f \in FailPoints \ {"none"}}

\* The environments of an uninstall: no outbound call, no manifest.
LocalEnvs ==
    {[world |-> <<>>, failAt |-> f, manifest |-> [Name |-> 1, Version |-> 1]] :
        f \in {"none", "removeAll", "write-open", "write-trunc"}}

(***************************************************************************)
(* The registry documents a process can find at startup: each partition is *)
(* missing or holds, for some of the names, a record of that partition.    *)
(***************************************************************************)
StoredInfo(name, version, global) ==
    [Name |-> name,
     Version |-> version,
     InstallPath |-> getInstallPath(name, global),
     Global |-> global]

StartDocs(global) ==
    {MissingDoc} \cup
    {OkDoc([n \in S |-> StoredInfo(n, f[n], global)]) :
        S \in SUBSET PackageNames, f \in [PackageNames -> Versions]}

State == [installedPackages |-> installedPackages,
          packagesJson |-> packagesJson,
          installDirs |-> installDirs]

Record(op, name, version, global, force, out) ==
    [op |-> op, name |-> name, version |-> version, global |-> global, force |-> force,
     result |-> out.result, calls |-> out.calls, resolved |-> out.resolved]

\* The handler's outcome becomes the next state.
Apply(op, name, version, global, force, out) ==
    /\ installedPackages' = out.installedPackages
    /\ packagesJson' = out.packagesJson
    /\ installDirs' = out.installDirs
    /\ last' = Record(op, name, version, global, force, out)
    /\ UNCHANGED <<config, remote, threads, rateLimiter, packagesMutex>>

(***************************************************************************)
(* The rate limiter (RateLimiter, NewRateLimiter, Wait).  ticker.C and the *)
(* permit channel requests are channels of capacity 1, modelled by the     *)
(* number of values they hold.  ticks counts the ticks of the ticker,      *)
(* holding the ticks the refill goroutine has received and not yet tried   *)
(* to turn into a permit, waiting the callers blocked in Wait, returned    *)
(* the calls of Wait that have returned.  stopped and closed say whether   *)
(* Close has stopped the ticker and closed the permit channel, closePc is  *)
(* the position of the running call of Close, closes the calls of Close    *)
(* that returned, and panic the run-time panic that ended the process.     *)
(***************************************************************************)
\* make(chan struct{}, 1) and the channel C of a time.Ticker
ChanCap == 1

\* lines 381-409: the ticker is started and the starting permit is sent
NewRateLimiter ==
    [ticks |-> 0, tickerC |-> 0, holding |-> 0, requests |-> 1, waiting |-> 0,
     returned |-> 0, stopped |-> FALSE, closed |-> FALSE, closePc |-> "idle",
     closes |-> 0, panic |-> ""]

\* A send that queues the value whatever the channel holds.
SendAlways(n) == n + 1

\* select { case requests <- struct{}{}: default: } : a send that is dropped
\* when the channel is full; the runtime sends on ticker.C the same way
SendOrDrop(n) == IF n < ChanCap THEN n + 1 ELSE n

\* sync.RWMutex, zero value: not held
Unlocked == [w |-> 0, r |-> {}]

\* The handlers of Spec and SpecCodec run one at a time, take their
\* repositories' answers from the environment of each call and do not wait
\* for permits.
Sequential ==
    /\ remote = <<>>
    /\ threads = <<>>
    /\ rateLimiter = NewRateLimiter
    /\ packagesMutex = Unlocked

NoCall ==
    [op |-> "start", name |-> 0, version |-> NoVersion, global |-> FALSE,
     force |-> FALSE, result |-> "ok", calls |-> <<>>, resolved |-> NoVersion]

\* NewPackageManager: the configuration is loaded and the registry is read
\* from the two documents.
Init ==
    /\ config = [Repositories |-> Repositories]
    /\ \E g \in StartDocs(TRUE), l \in StartDocs(FALSE) :
          packagesJson = [b \in BOOLEAN |-> IF b THEN g ELSE l]
    /\ installedPackages = loadInstalledPackages(packagesJson)
    /\ installDirs = {packagesJson[b].packages[n].InstallPath :
                         <<b, n>> \in {x \in BOOLEAN \X PackageNames :
                                          x[2] \in DOMAIN packagesJson[x[1]].packages}}
    /\ last = NoCall
    /\ ops = 0
    /\ Sequential

\* A first start: neither document exists and nothing is installed.
InitFresh ==
    /\ config = [Repositories |-> Repositories]
    /\ packagesJson = [b \in BOOLEAN |-> MissingDoc]
    /\ installedPackages = loadInstalledPackages(packagesJson)
    /\ installDirs = {}
    /\ last = NoCall
    /\ ops = 0
    /\ Sequential

(***************************************************************************)
(* Actions: one per handler call.  Install and Update run the program as   *)
(* implemented (extractArchive); InstallCodec and UpdateCodec run it with  *)
(* an archive codec in place of the stub.                                  *)
(***************************************************************************)
\* One more handler call of a run of at most MaxOps calls.
Tick == ops < MaxOps /\ ops' = ops + 1

Install ==
    \E packageName \in PackageNames, version \in Versions \cup {NoVersion},
       global \in BOOLEAN, force \in BOOLEAN :
       \E env \in StubEnvs(packageName) :
          /\ Tick
          /\ Apply("install", packageName, version, global, force,
                   InstallPackage(State, config.Repositories, packageName, version, global,
                                  force, "", "", env, extractArchive))

InstallCodec ==
    \E packageName \in PackageNames, version \in Versions \cup {NoVersion},
       global \in BOOLEAN, force \in BOOLEAN :
       \E env \in CodecEnvs(packageName) :
          /\ Tick
          /\ Apply("install", packageName, version, global, force,
                   InstallPackage(State, config.Repositories, packageName, version, global,
                                  force, "", "", env, unpack(env)))

Uninstall ==
    \E packageName \in PackageNames, global \in BOOLEAN, purge \in BOOLEAN :
       \E env \in LocalEnvs :
          /\ Tick
          /\ Apply("uninstall", packageName, NoVersion, global, FALSE,
                   UninstallPackage(State, packageName, global, purge, env))

Update ==
    \E packageName \in PackageNames :
       \E env \in StubEnvs(packageName) :
          /\ Tick
          /\ Apply("update", packageName, NoVersion, FALSE, FALSE,
                   UpdatePackage(State, config.Repositories, packageName, env,
                                 extractArchive))

UpdateCodec ==
    \E packageName \in PackageNames :
       \E env \in CodecEnvs(packageName) :
          /\ Tick
          /\ Apply("update", packageName, NoVersion, FALSE, FALSE,
                   UpdatePackage(State, config.Repositories, packageName, env, unpack(env)))

PackageInfoCall ==
    \E packageName \in PackageNames :
       /\ Tick
       /\ Apply("info", packageName, NoVersion, FALSE, FALSE,
                GetPackageInfo(State, packageName))

\* The program as implemented, from any registry found at startup, for runs
\* of at most MaxOps handler calls.
Next == Install \/ Uninstall \/ Update \/ PackageInfoCall

Spec == Init /\ [][Next]_vars

\* The program with an archive codec, from an empty registry, for runs of at
\* most MaxOps handler calls.
NextCodec == InstallCodec \/ Uninstall \/ UpdateCodec \/ PackageInfoCall

SpecCodec == InitFresh /\ [][NextCodec]_vars

(***************************************************************************)
(* Properties.  A handler call is the step that sets last, so a property   *)
(* of a call relates the registry before the step to last' and the         *)
(* registry after it.                                                      *)
(***************************************************************************)
Registry == <<installedPackages, packagesJson>>

\* The records the registry holds: in memory, and readable in each partition.
Records == <<installedPackages, [b \in BOOLEAN |-> ReadPackages(packagesJson[b]).packages]>>

\* A record exists for (name, scope): memory holds, under the name, a record
\* of that scope.
RecordExists(packages, packageName, global) ==
    /\ packageName \in DOMAIN packages
    /\ packages[packageName].Global = global

\* The names a partition document holds a record for.
Persisted(doc) == DOMAIN ReadPackages(doc).packages

C2_ScopesIndependent ==
    [][(last'.op \in {"install", "uninstall"}) =>
          /\ \A n \in DOMAIN installedPackages :
                (last'.name = n /\ installedPackages[n].Global # last'.global)
                => /\ n \in DOMAIN installedPackages'
                   /\ installedPackages'[n] = installedPackages[n]
          /\ packagesJson'[~last'.global] = packagesJson[~last'.global]]_vars

\* C3: after remove(name, scope), get(name) finds nothing and the partition of
\* that scope holds no record for the name; removing the same (name, scope)
\* again succeeds and changes nothing.
C3_RemoveIdempotent ==
    [][(last'.op = "uninstall" /\ last'.result = "ok") =>
          LET after == [installedPackages |-> installedPackages',
                        packagesJson |-> packagesJson',
                        installDirs |-> installDirs']
              again == remove(after, last'.name, last'.global, "ok")
          IN /\ ~getInstalledPackage(installedPackages', last'.name).exists
             /\ last'.name \notin Persisted(packagesJson'[last'.global])
             /\ again.ok
             /\ again.st = after]_vars

\* C3 witness: an uninstall succeeded and rewrote the partition document.
C3_Witness ==
    /\ last.op = "uninstall"
    /\ last.result = "ok"
    /\ packagesJson[last.global].status = "ok"
    /\ last.name \notin DOMAIN installedPackages

\* C4: an unforced install fails with already-installed, before any outbound
\* call and without changing the registry, when a record exists for
\* (name, scope) and the version is unspecified or the installed one; a record
\* of the same name in the other scope alone does not make it fail so.
C4_AlreadyInstalledPerScope ==
    [][(last'.op = "install" /\ ~last'.force) =>
          /\ (/\ RecordExists(installedPackages, last'.name, last'.global)
              /\ last'.version \in {NoVersion, installedPackages[last'.name].Version})
             => /\ last'.result = "already-installed"
                /\ last'.calls = <<>>
                /\ Registry' = Registry
          /\ (/\ ~RecordExists(installedPackages, last'.name, last'.global)
              /\ last'.name \notin Persisted(packagesJson[last'.global]))
             => last'.result # "already-installed"]_vars

\* C5 as stated: an unforced install naming a version other than the installed
\* one is rejected before any resolution or download and changes nothing.
C5_DifferingVersionRejected ==
    [][(/\ last'.op = "install" /\ ~last'.force
        /\ last'.name \in DOMAIN installedPackages
        /\ last'.version \notin {NoVersion, installedPackages[last'.name].Version})
       => /\ last'.result = "already-installed"
          /\ last'.calls = <<>>
          /\ Registry' = Registry]_vars

\* C5 amended: an unforced install naming a version other than the installed
\* one passes the already-installed check: it is never answered with
\* already-installed and it goes on to contact the repositories.
C5_DifferingVersionProceeds ==
    [][(/\ last'.op = "install" /\ ~last'.force
        /\ last'.name \in DOMAIN installedPackages
        /\ last'.version \notin {NoVersion, installedPackages[last'.name].Version})
       => /\ last'.result # "already-installed"
          /\ last'.calls # <<>>]_vars

\* C5 witness: an unforced install of another version than the installed one
\* was resolved and downloaded (the registry is as it was: the call failed at
\* the extraction step).
C5_Witness ==
    /\ last.op = "install" /\ ~last.force
    /\ last.name \in DOMAIN installedPackages
    /\ last.version \notin {NoVersion, installedPackages[last.name].Version}
    /\ last.result = "extract-error"
    /\ \E i \in 1..Len(last.calls) : last.calls[i].kind = "download"

C8_UninstallPerScope ==
    [][(last'.op = "uninstall" /\ last'.result \in {"ok", "not-installed"}) =>
          LET name == last'.name
              global == last'.global
              before == [b \in BOOLEAN |-> ReadPackages(packagesJson[b]).packages]
              after == [b \in BOOLEAN |-> ReadPackages(packagesJson'[b]).packages]
          IN IF ~RecordExists(installedPackages, name, global)
             THEN /\ last'.result = "not-installed"
                  /\ Registry' = Registry
                  /\ installDirs' = installDirs
             ELSE last'.result = "ok" =>
                  /\ installedPackages[name].InstallPath \notin installDirs'
                  /\ name \notin DOMAIN after[global]
                  /\ name \notin DOMAIN installedPackages'
                  /\ \A n \in (DOMAIN installedPackages) \ {name} :
                        /\ n \in DOMAIN installedPackages'
                        /\ installedPackages'[n] = installedPackages[n]
                  /\ \A n \in (DOMAIN before[global]) \ {name} :
                        /\ n \in DOMAIN after[global]
                        /\ after[global][n] = before[global][n]
                  /\ after[~global] = before[~global]]_vars

\* C9: update(name) fails with not-installed when no record exists and with
\* already-current when the version resolved as latest is the installed one;
\* either way the registry and the install directories are left unchanged.
C9_UpdateNoOp ==
    [][(last'.op = "update") =>
          /\ last'.name \notin DOMAIN installedPackages
                => last'.result = "not-installed"
          /\ (/\ last'.name \in DOMAIN installedPackages
              /\ last'.resolved = installedPackages[last'.name].Version)
                => last'.result = "already-current"
          /\ last'.result \in {"not-installed", "already-current"}
                => /\ Registry' = Registry
                   /\ installDirs' = installDirs]_vars

\* C9 witness: an update found the installed version to be the latest one.
C9_Witness ==
    /\ last.op = "update"
    /\ last.result = "already-current"
    /\ last.name \in DOMAIN installedPackages
    /\ last.resolved = installedPackages[last.name].Version
    /\ last.calls # <<>>

resolve(repos, world, packageName, version, arch, osName) ==
    LET a == IF arch = "" THEN GOARCH ELSE arch
        o == IF osName = "" THEN GOOS ELSE osName
    IN [arch |-> a, osName |-> o,
        res |-> findPackage(repos, world, packageName, version, a, o)]

LinuxArmFile == RepositoryFile(GOOS, "arm64", "linux-arm64")

\* a second build for the platform, listed after the first
LinuxAltFile == RepositoryFile(GOOS, GOARCH, "linux-amd64-static")

\* Every version in descending order, each with several builds.
Builds(packageName) ==
    [ok |-> TRUE, error |-> "", Name |-> packageName,
     Versions |-> [i \in 1..MaxVersions |->
                      RepositoryVersion(MaxVersions + 1 - i,
                                        <<WindowsFile, LinuxArmFile, LinuxFile,
                                          LinuxAltFile>>)]]

\* What a repository serves: a failure of the request, or a package.
AnswerKinds == {"transport", "status", "envelope", "ascending", "windows-only", "builds"}

Answer(kind, packageName) ==
    CASE kind = "ascending" -> Ascending(packageName)
      [] kind = "windows-only" -> WindowsOnly(packageName)
      [] kind = "builds" -> Builds(packageName)
      [] OTHER -> [Failing(packageName) EXCEPT !.error = kind]

\* The configured repositories with any priorities and enabled flags.
RepoConfigs ==
    {[i \in 1..Len(Repositories) |->
         [Name |-> Repositories[i].Name, Priority |-> p[i], Enabled |-> e[i]]] :
        p \in Permutations(1..Len(Repositories)),
        e \in [1..Len(Repositories) -> BOOLEAN]}

InitResolve ==
    /\ config \in [Repositories : RepoConfigs]
    /\ remote \in [1..Len(Repositories) -> AnswerKinds]
    /\ installedPackages = EmptyMap
    /\ packagesJson = [b \in BOOLEAN |-> MissingDoc]
    /\ installDirs = {}
    /\ last = NoCall
    /\ ops = 0
    /\ threads = <<>>
    /\ rateLimiter = NewRateLimiter
    /\ packagesMutex = Unlocked

\* What the repositories answer to a lookup of packageName.
World(packageName) == [i \in 1..Len(remote) |-> Answer(remote[i], packageName)]

\* One resolution per behaviour: the resolver keeps no state between calls.
Resolve ==
    \E packageName \in PackageNames, version \in Versions \cup {NoVersion},
       osName \in {"", "windows"}, arch \in {"", "arm64"} :
       LET r == resolve(config.Repositories, World(packageName), packageName, version,
                        arch, osName)
       IN /\ last.op = "start"
          /\ last' = [op |-> "resolve", name |-> packageName, version |-> version,
                      global |-> FALSE, force |-> FALSE,
                      result |-> IF r.res.found.ok THEN "ok" ELSE r.res.found.err,
                      calls |-> Lookups(r.res.calls),
                      resolved |-> r.res.found.Version,
                      reqOs |-> osName, reqArch |-> arch,
                      osName |-> r.osName, arch |-> r.arch,
                      found |-> r.res.found]
          /\ UNCHANGED <<config, installedPackages, packagesJson, installDirs, ops,
                         remote, threads, rateLimiter, packagesMutex>>

SpecResolve == InitResolve /\ [][Resolve]_vars


(***************************************************************************)
(* Properties of the resolver, stated on the state a resolution leaves:    *)
(* last holds the request, the platform resolved for, the repositories     *)
(* contacted in order and the result.                                      *)
(***************************************************************************)
\* The repository's answer has the package and an entry for the version.
HasVersion(resp, version) ==
    /\ resp.ok
    /\ IF version = NoVersion
       THEN Len(resp.Versions) > 0
       ELSE \E i \in 1..Len(resp.Versions) : resp.Versions[i].Version = version

\* The entry the version names: the last one when none is requested, the first
\* one with that version otherwise.
IsEntryFor(resp, version, i) ==
    IF version = NoVersion
    THEN i = Len(resp.Versions)
    ELSE /\ resp.Versions[i].Version = version
         /\ \A j \in 1..(i - 1) : resp.Versions[j].Version # version

\* The repository's answer has a file of that entry for the platform.
Offers(resp, version, osName, arch) ==
    /\ HasVersion(resp, version)
    /\ \E i \in 1..Len(resp.Versions) :
          /\ IsEntryFor(resp, version, i)
          /\ \E f \in 1..Len(resp.Versions[i].Files) :
                /\ resp.Versions[i].Files[f].OS = osName
                /\ resp.Versions[i].Files[f].Arch = arch

\* The repositories contacted, in order.
Contacted == [k \in 1..Len(last.calls) |-> last.calls[k].repo]

\* The enabled repositories are listed in ascending order of priority.
ListedByPriority ==
    \A i, j \in 1..Len(config.Repositories) :
       (i < j /\ config.Repositories[i].Enabled /\ config.Repositories[j].Enabled)
       => config.Repositories[i].Priority < config.Repositories[j].Priority

\* Repository i is the first enabled repository that has the package at the
\* requested version, and it has no file for the platform resolved for.
FirstHolderMissesPlatform(i) ==
    /\ config.Repositories[i].Enabled
    /\ HasVersion(World(last.name)[i], last.version)
    /\ ~Offers(World(last.name)[i], last.version, last.osName, last.arch)
    /\ \A j \in 1..(i - 1) :
          config.Repositories[j].Enabled => ~HasVersion(World(last.name)[j], last.version)

\* C11: when resolve succeeds, the file selected has the requested OS and
\* architecture (the platform of the running process where none was requested)
\* and is the first file with that pair in the file list of the selected
\* version.
C11_ResolvedFileMatchesPlatform ==
    (last.op = "resolve" /\ last.found.ok) =>
       /\ last.osName = (IF last.reqOs = "" THEN "linux" ELSE last.reqOs)
       /\ last.arch = (IF last.reqArch = "" THEN "amd64" ELSE last.reqArch)
       /\ LET resp == World(last.name)[last.found.Repo]
          IN \E v \in 1..Len(resp.Versions) :
                /\ resp.Versions[v].Version = last.found.Version
                /\ \E f \in 1..Len(resp.Versions[v].Files) :
                      LET files == resp.Versions[v].Files
                      IN /\ files[f].Filename = last.found.Filename
                         /\ files[f].OS = last.osName
                         /\ files[f].Arch = last.arch
                         /\ \A j \in 1..(f - 1) :
                               ~(files[j].OS = last.osName /\ files[j].Arch = last.arch)

\* C11 witness: a resolution for the default platform selected the first of
\* two linux/amd64 builds, listed after builds for other platforms.
C11_Witness ==
    /\ last.op = "resolve"
    /\ last.found.ok
    /\ last.reqOs = "" /\ last.reqArch = ""
    /\ remote[last.found.Repo] = "builds"
    /\ last.found.Filename = "linux-amd64"

\* C12: a repository is never contacted before every enabled repository with
\* a strictly lower priority value has been contacted.
C12_PriorityOrder ==
    (last.op = "resolve") =>
       \A k \in 1..Len(Contacted) : \A r \in 1..Len(config.Repositories) :
          (/\ config.Repositories[r].Enabled
           /\ config.Repositories[r].Priority < config.Repositories[Contacted[k]].Priority)
          => \E j \in 1..(k - 1) : Contacted[j] = r

\* C13 as stated: when the first enabled repository that has the package has
\* no file for the platform, resolve fails with not-found, whatever the later
\* repositories hold.  Stated for configurations listed in priority order.
C13_PlatformMissStopsResolve ==
    (last.op = "resolve" /\ ListedByPriority) =>
       \A i \in 1..Len(config.Repositories) :
          FirstHolderMissesPlatform(i) => ~last.found.ok /\ last.result = "not-found"

\* C13 amended: when the first enabled repository that has the package has no
\* file for the platform, resolve goes on to the later enabled repositories:
\* it succeeds exactly when one of them has the package with a file for the
\* platform, with the first such repository's file, and otherwise fails with
\* not-found after contacting every enabled repository.
C13_PlatformMissFallsThrough ==
    (last.op = "resolve" /\ ListedByPriority) =>
       \A i \in 1..Len(config.Repositories) :
          FirstHolderMissesPlatform(i)
          => LET later == {j \in (i + 1)..Len(config.Repositories) :
                              /\ config.Repositories[j].Enabled
                              /\ Offers(World(last.name)[j], last.version, last.osName,
                                        last.arch)}
             IN /\ last.found.ok <=> later # {}
                /\ last.found.ok =>
                      /\ last.found.Repo \in later
                      /\ \A j \in later : last.found.Repo <= j
                /\ ~last.found.ok =>
                      /\ last.result = "not-found"
                      /\ \A j \in 1..Len(config.Repositories) :
                            config.Repositories[j].Enabled
                            => \E k \in 1..Len(Contacted) : Contacted[k] = j

\* C13 witness: repositories [disabled, package for windows only, package
\* with a linux build], a request for linux: resolved from the third.
C13_Witness ==
    /\ last.op = "resolve"
    /\ ListedByPriority
    /\ ~config.Repositories[1].Enabled
    /\ FirstHolderMissesPlatform(2)
    /\ config.Repositories[3].Enabled
    /\ remote[2] = "windows-only"
    /\ last.osName = "linux"
    /\ last.found.ok
    /\ last.found.Repo = 3
    /\ Contacted = <<2, 3>>

\* C14: a repository's failure is not fatal to resolve: resolve succeeds
\* exactly when some enabled repository has the package, the version and a
\* file for the platform; every enabled repository before the one that
\* answered was contacted once, in list order; and when all of them fail the
\* result is the one not-found failure, with no repository's error in it,
\* after each enabled repository was contacted once.
C14_RepositoryFailureNotFatal ==
    (last.op = "resolve") =>
       LET repos == config.Repositories
           yields == {i \in 1..Len(repos) :
                         /\ repos[i].Enabled
                         /\ Offers(World(last.name)[i], last.version, last.osName,
                                   last.arch)}
           upTo == IF last.found.ok THEN last.found.Repo ELSE Len(repos)
       IN /\ last.found.ok <=> yields # {}
          /\ last.found.ok => last.found.Repo \in yields
          /\ ~last.found.ok => last.found = NoResult /\ last.result = "not-found"
          /\ \A i \in 1..upTo :
                repos[i].Enabled =>
                   Cardinality({k \in 1..Len(Contacted) : Contacted[k] = i}) = 1
          /\ \A k \in 1..(Len(Contacted) - 1) : Contacted[k] < Contacted[k + 1]

\* C14 witness: two enabled repositories failed, one with a transport error
\* and one with a status other than 200, and the third one answered.
C14_Witness ==
    /\ last.op = "resolve"
    /\ remote[1] = "transport"
    /\ remote[2] = "status"
    /\ Contacted = <<1, 2, 3>>
    /\ last.found.ok
    /\ last.found.Repo = 3

\* C26: resolve returns at the first enabled repository, in list order, that
\* has the package, a selectable version and a file for the platform: that
\* repository is the last one contacted, and the download locator is made of
\* that repository, the package name, the version of the selected entry and
\* the filename of the selected file.
C26_ReturnsAtFirstMatch ==
    (last.op = "resolve" /\ last.found.ok) =>
       LET repos == config.Repositories
           r == last.found.Repo
           resp == World(last.name)[r]
       IN /\ repos[r].Enabled
          /\ Offers(resp, last.version, last.osName, last.arch)
          /\ \A j \in 1..(r - 1) :
                repos[j].Enabled
                => ~Offers(World(last.name)[j], last.version, last.osName, last.arch)
          /\ Contacted # <<>>
          /\ Contacted[Len(Contacted)] = r
          /\ \A k \in 1..Len(Contacted) : Contacted[k] <= r
          /\ last.found.Name = last.name
          /\ \E v \in 1..Len(resp.Versions) :
                /\ IsEntryFor(resp, last.version, v)
                /\ last.found.Version = resp.Versions[v].Version
                /\ LET files == resp.Versions[v].Files
                   IN \E f \in 1..Len(files) :
                         /\ files[f].OS = last.osName /\ files[f].Arch = last.arch
                         /\ \A g \in 1..(f - 1) :
                               ~(files[g].OS = last.osName /\ files[g].Arch = last.arch)
                         /\ last.found.Filename = files[f].Filename

\* C26 witness: three enabled repositories; the first fails, the second and
\* the third both have the package with a build for the platform and would
\* select different versions; the second answered and the third was not
\* contacted.
C26_Witness ==
    /\ last.op = "resolve"
    /\ last.version = NoVersion
    /\ \A i \in 1..Len(config.Repositories) : config.Repositories[i].Enabled
    /\ remote = <<"transport", "builds", "ascending">>
    /\ last.found.ok
    /\ last.found.Repo = 2
    /\ last.found.Version = 1
    /\ Contacted = <<1, 2>>


(***************************************************************************)
(* Version selection within one repository.  SpecSelect draws the version  *)
(* list one repository serves: up to MaxEntries entries in any order, with *)
(* repeated versions, each with or without a build for the platform; the   *)
(* build of each entry is named after the entry's position in the list.    *)
(***************************************************************************)
MaxEntries == 3

EntryFile(i) ==
    LET names == <<"first", "second", "third", "later">>
    IN RepositoryFile(GOOS, GOARCH, names[IF i < Len(names) THEN i ELSE Len(names)])

Entry(i, version, built) ==
    RepositoryVersion(version,
                      IF built THEN <<WindowsFile, EntryFile(i)>> ELSE <<WindowsFile>>)

VersionLists ==
    UNION {{[i \in 1..n |-> Entry(i, v[i], b[i])] :
               v \in [1..n -> Versions], b \in [1..n -> BOOLEAN]} : n \in 0..MaxEntries}

InitSelect ==
    /\ config = [Repositories |-> <<[Name |-> "main", Priority |-> 1, Enabled |-> TRUE]>>]
    /\ remote \in {<<[ok |-> TRUE, error |-> "", Name |-> 1, Versions |-> vs]>> :
                       vs \in VersionLists}
    /\ installedPackages = EmptyMap
    /\ packagesJson = [b \in BOOLEAN |-> MissingDoc]
    /\ installDirs = {}
    /\ last = NoCall
    /\ ops = 0
    /\ threads = <<>>
    /\ rateLimiter = NewRateLimiter
    /\ packagesMutex = Unlocked

\* One call of findInRepository per behaviour, for the platform of the
\* process.
Select ==
    /\ last.op = "start"
    /\ \E version \in Versions \cup {NoVersion} :
          LET r == findInRepository(1, remote[1], remote[1].Name, version, GOARCH, GOOS)
          IN last' = [op |-> "select", name |-> remote[1].Name, version |-> version,
                      result |-> IF r.ok THEN "ok" ELSE r.err,
                      calls |-> <<Call("lookup", 1)>>,
                      found |-> r]
    /\ UNCHANGED <<config, installedPackages, packagesJson, installDirs, ops, remote,
                   threads, rateLimiter, packagesMutex>>

SpecSelect == InitSelect /\ [][Select]_vars

\* The entry the claim names for the request: the last entry when no version
\* is requested, the first entry with exactly the requested version
\* otherwise, 0 when the list is empty or has no such entry.
Selected ==
    LET vs == remote[1].Versions
        equal == {i \in 1..Len(vs) : vs[i].Version = last.version}
    IN IF last.version = NoVersion
       THEN Len(vs)
       ELSE IF equal = {} THEN 0 ELSE CHOOSE i \in equal : \A j \in equal : i <= j

\* C27: within one repository the entry selected is the last one when no
\* version is requested and the first one with exactly the requested version
\* otherwise; the repository yields a failure when the list is empty or no
\* entry has the version.  The entry selected is seen in the result: its
\* version and its build when it has one for the platform, the failure for a
\* missing platform file when it has none.
C27_VersionSelection ==
    last.op = "select" =>
       LET vs == remote[1].Versions
       IN IF Selected = 0
          THEN ~last.found.ok /\ last.result = "no-version"
          ELSE IF Len(vs[Selected].Files) > 1
               THEN /\ last.found.ok
                    /\ last.found.Version = vs[Selected].Version
                    /\ last.found.Filename = EntryFile(Selected).Filename
               ELSE ~last.found.ok /\ last.result = "no-file"

\* C27 witness: no version requested, a list whose last entry holds a lower
\* version than its first: the last entry is selected.
C27_Witness ==
    /\ last.op = "select"
    /\ last.version = NoVersion
    /\ Len(remote[1].Versions) = MaxEntries
    /\ remote[1].Versions[1].Version > remote[1].Versions[MaxEntries].Version
    /\ last.found.ok
    /\ last.found.Version = remote[1].Versions[MaxEntries].Version
    /\ last.found.Filename = EntryFile(MaxEntries).Filename


\* C15: loading the registry at startup yields an entry for every record of
\* either partition document: a name present in both documents has both of its
\* records in memory, each equal to its own document's record.
C15_LoadKeepsBothScopes ==
    (last.op = "start") =>
       \A b \in BOOLEAN : \A n \in DOMAIN packagesJson[b].packages :
          \E k \in DOMAIN installedPackages :
             installedPackages[k] = packagesJson[b].packages[n]


(***************************************************************************)
(* Concurrent callers.  SpecConcurrent runs MaxThreads goroutines, each    *)
(* making one call of InstallPackage or UninstallPackage, interleaved at   *)
(* the accesses to the shared state: the memory map (under                 *)
(* packagesMutex) and the partition documents (savePackageInfo and         *)
(* removePackageInfo read and write them without taking any lock).  The    *)
(* archive codec stands in place of extractArchive, every file operation   *)
(* succeeds and a write of a document is taken as one step.                *)
(***************************************************************************)
MaxThreads == 2

Threads == 1..MaxThreads

IdleThread ==
    [pc |-> "idle", op |-> "", name |-> 0, global |-> FALSE, info |-> EmptyMap,
     packages |-> EmptyMap, result |-> ""]

\* The registries a process starts from: every name is installed in at most
\* one scope, at the first version.
ConcurrentStartDocs ==
    {[b \in BOOLEAN |->
         OkDoc([n \in {m \in PackageNames :
                          scope[m] = (IF b THEN "global" ELSE "local")} |->
                   StoredInfo(n, 1, b)])] :
        scope \in [PackageNames -> {"global", "local", "none"}]}

InitConcurrent ==
    /\ config = [Repositories |-> Repositories]
    /\ packagesJson \in ConcurrentStartDocs
    /\ installedPackages = loadInstalledPackages(packagesJson)
    /\ installDirs = {installedPackages[n].InstallPath : n \in DOMAIN installedPackages}
    /\ last = NoCall
    /\ ops = 0
    /\ remote = <<>>
    /\ rateLimiter = NewRateLimiter
    /\ packagesMutex = Unlocked
    /\ threads = [t \in Threads |-> IdleThread]

\* InstallPackage, lines 540-619: the already-installed check, resolution,
\* download, extraction and copy, up to the record built from the manifest.
BeginInstall(t) ==
    \E packageName \in PackageNames, global \in BOOLEAN, failAt \in {"none", "extract"} :
       LET env == [failAt |-> failAt,
                   manifest |-> [Name |-> packageName, Version |-> 1]]
           installPath == getInstallPath(packageName, global)
       IN /\ threads[t].pc = "idle"
          /\ IF AlreadyInstalled(installedPackages, packageName, NoVersion, FALSE)
             THEN /\ threads' = [threads EXCEPT ![t] =
                        [@ EXCEPT !.pc = "done", !.op = "install", !.name = packageName,
                                  !.global = global, !.result = "already-installed"]]
                  /\ UNCHANGED installDirs
             ELSE IF ~unpack(env)
                  THEN /\ threads' = [threads EXCEPT ![t] =
                             [@ EXCEPT !.pc = "done", !.op = "install",
                                       !.name = packageName, !.global = global,
                                       !.result = "extract-error"]]
                       /\ UNCHANGED installDirs
                  ELSE /\ threads' = [threads EXCEPT ![t] =
                             [@ EXCEPT !.pc = "save-read", !.op = "install",
                                       !.name = packageName, !.global = global,
                                       !.info = NewPackageInfo(env.manifest, installPath,
                                                               global)]]
                       /\ installDirs' = installDirs \cup {installPath}
          /\ UNCHANGED <<config, installedPackages, packagesJson, last, ops, remote,
                         rateLimiter, packagesMutex>>

\* savePackageInfo, lines 1024-1031: the document is read
SaveRead(t) ==
    /\ threads[t].pc = "save-read"
    /\ threads' = [threads EXCEPT ![t] =
          [@ EXCEPT !.pc = "save-write",
                    !.packages = ReadPackages(packagesJson[threads[t].info.Global]).packages]]
    /\ UNCHANGED <<config, installedPackages, packagesJson, installDirs, last, ops,
                   remote, rateLimiter, packagesMutex>>

\* savePackageInfo, lines 1033-1042: the record is added to the map read and
\* the document is rewritten
SaveWrite(t) ==
    /\ threads[t].pc = "save-write"
    /\ packagesJson' = [packagesJson EXCEPT ![threads[t].info.Global] =
          WriteFile(@, MapPut(threads[t].packages, threads[t].info.Name, threads[t].info),
                    "ok")]
    /\ threads' = [threads EXCEPT ![t] = [@ EXCEPT !.pc = "publish"]]
    /\ UNCHANGED <<config, installedPackages, installDirs, last, ops, remote,
                   rateLimiter, packagesMutex>>

\* InstallPackage, lines 626-629: the memory map is updated under the lock
Publish(t) ==
    /\ threads[t].pc = "publish"
    /\ installedPackages' = MapPut(installedPackages, threads[t].name, threads[t].info)
    /\ threads' = [threads EXCEPT ![t] = [@ EXCEPT !.pc = "done", !.result = "ok"]]
    /\ UNCHANGED <<config, packagesJson, installDirs, last, ops, remote,
                   rateLimiter, packagesMutex>>

\* UninstallPackage, lines 637-645: the lookup and the removal of the files
BeginUninstall(t) ==
    \E packageName \in PackageNames, global \in BOOLEAN :
       LET got == getInstalledPackage(installedPackages, packageName)
       IN /\ threads[t].pc = "idle"
          /\ IF ~got.exists
             THEN /\ threads' = [threads EXCEPT ![t] =
                        [@ EXCEPT !.pc = "done", !.op = "uninstall", !.name = packageName,
                                  !.global = global, !.result = "not-installed"]]
                  /\ UNCHANGED installDirs
             ELSE /\ threads' = [threads EXCEPT ![t] =
                        [@ EXCEPT !.pc = "remove-read", !.op = "uninstall",
                                  !.name = packageName, !.global = global]]
                  /\ installDirs' = installDirs \ {got.info.InstallPath}
          /\ UNCHANGED <<config, installedPackages, packagesJson, last, ops, remote,
                         rateLimiter, packagesMutex>>

\* removePackageInfo, lines 1053-1060: the document is read; with no map read
\* the function returns without writing
RemoveRead(t) ==
    /\ threads[t].pc = "remove-read"
    /\ LET read == ReadPackages(packagesJson[threads[t].global])
       IN threads' = [threads EXCEPT ![t] =
             [@ EXCEPT !.pc = IF read.nil THEN "unpublish" ELSE "remove-write",
                       !.packages = read.packages]]
    /\ UNCHANGED <<config, installedPackages, packagesJson, installDirs, last, ops,
                   remote, rateLimiter, packagesMutex>>

\* removePackageInfo, lines 1062-1071: the name is deleted from the map read
\* and the document is rewritten
RemoveWrite(t) ==
    /\ threads[t].pc = "remove-write"
    /\ packagesJson' = [packagesJson EXCEPT ![threads[t].global] =
          WriteFile(@, MapDelete(threads[t].packages, threads[t].name), "ok")]
    /\ threads' = [threads EXCEPT ![t] = [@ EXCEPT !.pc = "unpublish"]]
    /\ UNCHANGED <<config, installedPackages, installDirs, last, ops, remote,
                   rateLimiter, packagesMutex>>

\* UninstallPackage, lines 652-655: the name is deleted from memory under the
\* lock
Unpublish(t) ==
    /\ threads[t].pc = "unpublish"
    /\ installedPackages' = MapDelete(installedPackages, threads[t].name)
    /\ threads' = [threads EXCEPT ![t] = [@ EXCEPT !.pc = "done", !.result = "ok"]]
    /\ UNCHANGED <<config, packagesJson, installDirs, last, ops, remote,
                   rateLimiter, packagesMutex>>

NextConcurrent ==
    \E t \in Threads :
       \/ BeginInstall(t)
       \/ SaveRead(t)
       \/ SaveWrite(t)
       \/ Publish(t)
       \/ BeginUninstall(t)
       \/ RemoveRead(t)
       \/ RemoveWrite(t)
       \/ Unpublish(t)

SpecConcurrent == InitConcurrent /\ [][NextConcurrent]_vars

\* The change a completed call made to its partition is in the document.
Reflected(t) ==
    LET stored == ReadPackages(packagesJson[threads[t].global]).packages
    IN IF threads[t].op = "install"
       THEN /\ threads[t].name \in DOMAIN stored
            /\ stored[threads[t].name] = threads[t].info
       ELSE threads[t].name \notin DOMAIN stored

byScoreAscending(a, b) == a.Score < b.Score

\* SearchPackages, lines 701-703: allResults[i].Score > allResults[j].Score
byScore(a, b) == a.Score > b.Score

\* A less function that orders by descending name.
byNameDescending(a, b) == a.Name > b.Name

\* ListPackages, lines 726-728: packages[i].Name < packages[j].Name
byName(a, b) == a.Name < b.Name

less(by, a, b) == IF by = "score" THEN byScore(a, b) ELSE byName(a, b)

swap(data, i, j) == [data EXCEPT ![i] = data[j], ![j] = data[i]]

RECURSIVE sink(_, _, _)
\* for j := i; j > a && less(data[j], data[j-1]); j-- { swap(j, j-1) }
sink(by, data, j) ==
    IF j > 1 /\ less(by, data[j], data[j - 1])
    THEN sink(by, swap(data, j, j - 1), j - 1)
    ELSE data

RECURSIVE insertionSortFrom(_, _, _)
\* for i := a + 1; i < b; i++ { ... }
insertionSortFrom(by, data, i) ==
    IF i > Len(data) THEN data ELSE insertionSortFrom(by, sink(by, data, i), i + 1)

sortSlice(by, data) == insertionSortFrom(by, data, 2)

(***************************************************************************)
(* Search.  A repository's answer to GET /api/v1/search is a record        *)
(* [ok, error, scores]: a failure of searchInRepository (transport error,  *)
(* status other than 200, success = false) or the relevance scores of the  *)
(* results it returns, in the order it returns them.  SpecSearch starts    *)
(* from any enabled flags and any answers and runs SearchPackages.         *)
(***************************************************************************)
MaxScore == 2

MaxResults == 2

\* searchInRepository, lines 1153-1196: the results of repository i, or none
\* with an error.  A result is named after the repository and its position.
searchInRepository(i, resp) ==
    IF resp.ok
    THEN [ok |-> TRUE,
          results |-> [k \in 1..Len(resp.scores) |->
                          [Name |-> <<i, k>>, Score |-> resp.scores[k]]]]
    ELSE [ok |-> FALSE, results |-> <<>>]

RECURSIVE searchUntilFailure(_, _, _, _, _)
\* A loop that stops at the first repository whose search fails.
searchUntilFailure(i, repos, world, allResults, calls) ==
    IF i > Len(repos)
    THEN [results |-> allResults, calls |-> calls]
    ELSE IF ~repos[i].Enabled
         THEN searchUntilFailure(i + 1, repos, world, allResults, calls)
         ELSE LET r == searchInRepository(i, world[i])
              IN IF ~r.ok
                 THEN [results |-> allResults, calls |-> Append(calls, Call("search", i))]
                 ELSE searchUntilFailure(i + 1, repos, world, allResults \o r.results,
                                         Append(calls, Call("search", i)))

RECURSIVE searchEveryRepository(_, _, _, _, _)
\* A loop that does not read the Enabled flag.
searchEveryRepository(i, repos, world, allResults, calls) ==
    IF i > Len(repos)
    THEN [results |-> allResults, calls |-> calls]
    ELSE LET r == searchInRepository(i, world[i])
         IN searchEveryRepository(i + 1, repos, world,
                                  IF r.ok THEN allResults \o r.results ELSE allResults,
                                  Append(calls, Call("search", i)))

RECURSIVE searchFrom(_, _, _, _, _)
\* SearchPackages, lines 687-698: the loop over pm.config.Repositories
searchFrom(i, repos, world, allResults, calls) ==
    IF i > Len(repos)
    THEN [results |-> allResults, calls |-> calls]
    ELSE IF ~repos[i].Enabled
         THEN searchFrom(i + 1, repos, world, allResults, calls)
         ELSE LET r == searchInRepository(i, world[i])
              IN IF ~r.ok
                 THEN searchFrom(i + 1, repos, world, allResults,
                                 Append(calls, Call("search", i)))
                 ELSE searchFrom(i + 1, repos, world, allResults \o r.results,
                                 Append(calls, Call("search", i)))

\* SearchPackages, lines 684-706: the error returned is always nil
SearchPackages(repos, world) ==
    LET all == searchFrom(1, repos, world, <<>>, <<>>)
    IN [err |-> "nil", results |-> sortSlice("score", all.results), calls |-> all.calls]

RECURSIVE SeqsUpTo(_, _)
\* the sequences over S of length at most n
SeqsUpTo(S, n) ==
    IF n = 0
    THEN {<<>>}
    ELSE SeqsUpTo(S, n - 1) \cup
         {Append(q, x) : q \in {p \in SeqsUpTo(S, n - 1) : Len(p) = n - 1}, x \in S}

SearchAnswers ==
    {[ok |-> FALSE, error |-> k, scores |-> <<>>] : k \in {"transport", "status", "envelope"}}
    \cup {[ok |-> TRUE, error |-> "", scores |-> q] : q \in SeqsUpTo(1..MaxScore, MaxResults)}

\* The configured repositories with any enabled flags.
EnabledConfigs ==
    {[i \in 1..Len(Repositories) |-> [Repositories[i] EXCEPT !.Enabled = e[i]]] :
        e \in [1..Len(Repositories) -> BOOLEAN]}

InitSearch ==
    /\ config \in [Repositories : EnabledConfigs]
    /\ remote \in [1..Len(Repositories) -> SearchAnswers]
    /\ installedPackages = EmptyMap
    /\ packagesJson = [b \in BOOLEAN |-> MissingDoc]
    /\ installDirs = {}
    /\ last = NoCall
    /\ ops = 0
    /\ threads = <<>>
    /\ rateLimiter = NewRateLimiter
    /\ packagesMutex = Unlocked

\* One search per behaviour: SearchPackages keeps no state between calls.
Search ==
    LET out == SearchPackages(config.Repositories, remote)
    IN /\ last.op = "start"
       /\ last' = [op |-> "search", name |-> 0, version |-> NoVersion, global |-> FALSE,
                   force |-> FALSE, result |-> out.err, calls |-> out.calls,
                   resolved |-> NoVersion, results |-> out.results]
       /\ UNCHANGED <<config, installedPackages, packagesJson, installDirs, ops, remote,
                      threads, rateLimiter, packagesMutex>>

SpecSearch == InitSearch /\ [][Search]_vars

\* How many times x occurs in the sequence q.
Count(q, x) == Cardinality({k \in 1..Len(q) : q[k] = x})

\* The repositories whose search call is made and succeeds.
Answering ==
    {i \in 1..Len(config.Repositories) : config.Repositories[i].Enabled /\ remote[i].ok}

\* C17: the list search returns is sorted by descending score: no element has
\* a strictly lower score than an element after it.
C17_SearchSortedByScore ==
    (last.op = "search") =>
       \A i, j \in 1..Len(last.results) :
          i < j => ~(last.results[i].Score < last.results[j].Score)

\* C17 witness: a search merged the results of several repositories, one of
\* which returned its results in ascending order of score.
C17_Witness ==
    /\ last.op = "search"
    /\ Cardinality(Answering) >= 2
    /\ Len(last.results) >= 3
    /\ \E i \in Answering : \E k \in 1..(Len(remote[i].scores) - 1) :
          remote[i].scores[k] < remote[i].scores[k + 1]

\* C18: search never fails; its result holds exactly the results returned by
\* the enabled repositories whose call succeeded, each as many times as it
\* was returned; a repository whose call fails contributes nothing, and every
\* enabled repository is queried, those listed after a failing one included.
C18_SearchIgnoresFailures ==
    (last.op = "search") =>
       /\ last.result = "nil"
       /\ \A i \in Answering : \A k \in 1..Len(remote[i].scores) :
             Count(last.results, [Name |-> <<i, k>>, Score |-> remote[i].scores[k]]) = 1
       /\ \A x \in 1..Len(last.results) :
             /\ last.results[x].Name[1] \in Answering
             /\ last.results[x].Name[2] \in 1..Len(remote[last.results[x].Name[1]].scores)
       /\ \A i \in 1..Len(config.Repositories) :
             Count(Contacted, i) = IF config.Repositories[i].Enabled THEN 1 ELSE 0

\* C18 witness: an enabled repository failed, an enabled repository listed
\* after it answered, and the search returned that repository's results.
C18_Witness ==
    /\ last.op = "search"
    /\ \E i, j \in 1..Len(config.Repositories) :
          /\ i < j
          /\ config.Repositories[i].Enabled /\ ~remote[i].ok
          /\ j \in Answering
          /\ Len(remote[j].scores) > 0
    /\ Len(last.results) > 0


(***************************************************************************)
(* List.  ListPackages ranges over the memory map, whose iteration order   *)
(* Go leaves unspecified: order is the order in which one call meets the   *)
(* keys.  SpecList starts from any registry found at startup.              *)
(***************************************************************************)
\* The orders in which a range over the map can deliver its keys.
Orders(packages) ==
    {q \in [1..Cardinality(DOMAIN packages) -> DOMAIN packages] :
        \A i, j \in DOMAIN q : i # j => q[i] # q[j]}

\* ListPackages, lines 713-722: the records the loop appends
Kept(global, pkg) == ~(global /\ ~pkg.Global) /\ ~(~global /\ pkg.Global)

\* ListPackages, lines 709-731.  outdated is not read by the code.
ListPackages(packages, order, global, outdated) ==
    LET visited == [k \in 1..Len(order) |-> packages[order[k]]]
        appended == SelectSeq(visited, LAMBDA pkg : Kept(global, pkg))
    IN sortSlice("name", appended)

List ==
    \E global \in BOOLEAN, outdated \in BOOLEAN :
       \E order \in Orders(installedPackages) :
          /\ last' = [op |-> "list", name |-> 0, version |-> NoVersion, global |-> global,
                      force |-> FALSE, result |-> "nil", calls |-> <<>>,
                      resolved |-> NoVersion, order |-> order,
                      results |-> ListPackages(installedPackages, order, global, outdated)]
          /\ UNCHANGED <<config, installedPackages, packagesJson, installDirs, ops,
                         remote, threads, rateLimiter, packagesMutex>>

SpecList == Init /\ [][List]_vars

\* C19: list(scope) returns every record the registry holds in memory for the
\* requested scope, each once, and no record of the other scope, in ascending
\* order of name, whatever the order in which the map delivers its entries.
C19_ListScopeSorted ==
    (last.op = "list") =>
       /\ \A k \in 1..Len(last.results) : last.results[k].Global = last.global
       /\ \A n \in DOMAIN installedPackages :
             installedPackages[n].Global = last.global
             => Count(last.results, installedPackages[n]) = 1
       /\ Len(last.results) =
             Cardinality({n \in DOMAIN installedPackages :
                             installedPackages[n].Global = last.global})
       /\ \A i, j \in 1..Len(last.results) :
             i < j => ~(last.results[j].Name < last.results[i].Name)

\* C19 witness: the map delivered two records of the requested scope in
\* descending order of name and the list has both.
C19_Witness ==
    /\ last.op = "list"
    /\ Len(last.results) = 2
    /\ last.order[1] > last.order[2]
    /\ last.results[1].Name < last.results[2].Name


(***************************************************************************)
(* The rate limiter on its own.  SpecLimiter runs the ticker, the refill   *)
(* goroutine of NewRateLimiter and any number of goroutines calling Wait,  *)
(* for MaxTicks ticks and MaxWaits calls of Wait.                          *)
(***************************************************************************)
MaxTicks == 4

MaxWaits == 4

InitLimiter ==
    /\ config = [Repositories |-> Repositories]
    /\ installedPackages = EmptyMap
    /\ packagesJson = [b \in BOOLEAN |-> MissingDoc]
    /\ installDirs = {}
    /\ last = NoCall
    /\ ops = 0
    /\ remote = <<>>
    /\ threads = <<>>
    /\ rateLimiter = NewRateLimiter
    /\ packagesMutex = Unlocked

LimiterStep(next) ==
    /\ rateLimiter' = next
    /\ UNCHANGED <<config, installedPackages, packagesJson, installDirs, last, ops, remote,
                   threads, packagesMutex>>

\* time.NewTicker, line 387: the runtime sends a tick on ticker.C and drops it
\* when the channel is full
TickerFires ==
    /\ rateLimiter.ticks < MaxTicks
    /\ LimiterStep([rateLimiter EXCEPT !.ticks = @ + 1, !.tickerC = SendOrDrop(@)])

\* line 399: for range ticker.C receives a tick
RefillReceives ==
    /\ rateLimiter.holding = 0
    /\ rateLimiter.tickerC > 0
    /\ LimiterStep([rateLimiter EXCEPT !.tickerC = @ - 1, !.holding = 1])

\* lines 401-404: the tick becomes a permit unless one is already there
RefillSends ==
    /\ rateLimiter.holding = 1
    /\ LimiterStep([rateLimiter EXCEPT !.holding = 0, !.requests = SendOrDrop(@)])

\* Wait, lines 412-414: a goroutine calls Wait and blocks on the channel
WaitCalled ==
    /\ rateLimiter.waiting + rateLimiter.returned < MaxWaits
    /\ LimiterStep([rateLimiter EXCEPT !.waiting = @ + 1])

\* Wait, line 413: a blocked caller receives the permit and returns
WaitReturns ==
    /\ rateLimiter.waiting > 0
    /\ rateLimiter.requests > 0
    /\ LimiterStep([rateLimiter EXCEPT !.requests = @ - 1, !.waiting = @ - 1,
                                        !.returned = @ + 1])

NextLimiter == TickerFires \/ RefillReceives \/ RefillSends \/ WaitCalled \/ WaitReturns

SpecLimiter == InitLimiter /\ [][NextLimiter]_vars

\* C20: the limiter holds at most one permit at any time, a tick that arrives
\* while a permit is held adds none, and the calls of Wait that have returned
\* never exceed 1 plus the ticks elapsed, however many callers there are.
C20_NoBacklog ==
    [][/\ rateLimiter.requests <= 1
       /\ rateLimiter'.requests <= 1
       /\ rateLimiter'.returned + rateLimiter'.requests <= 1 + rateLimiter'.ticks
       /\ rateLimiter'.returned <= 1 + rateLimiter'.ticks
       /\ (rateLimiter.requests = 1 /\ rateLimiter.holding = 1 /\ rateLimiter'.holding = 0)
          => rateLimiter'.requests = 1 /\ rateLimiter'.returned = rateLimiter.returned]_vars

\* C20 witness: ticks were dropped while a permit was held: after an idle
\* period of several ticks one permit is available, and callers have been
\* served before.
C20_Witness ==
    /\ rateLimiter.requests = 1
    /\ rateLimiter.returned >= 2
    /\ rateLimiter.holding = 0 /\ rateLimiter.tickerC = 0
    /\ rateLimiter.ticks = MaxTicks
    /\ rateLimiter.returned + rateLimiter.requests < 1 + rateLimiter.ticks
    /\ rateLimiter.waiting = 0

\* C22: every outbound call of a handler is sent after taking a permit from
\* the rate limiter.
C22_EveryCallTakesPermit ==
    \A i \in 1..Len(last.calls) : last.calls[i].permit


(***************************************************************************)
(* The rate limiter with Close.  SpecShutdown adds to SpecLimiter a        *)
(* goroutine that calls Close up to MaxCloses times, one call after the    *)
(* other.  A panic of any goroutine ends the process: no action is enabled *)
(* once rateLimiter.panic is set.                                          *)
(***************************************************************************)
MaxCloses == 2

Running == rateLimiter.panic = ""

\* time.Ticker.Stop: no tick is sent after Stop; ticker.C is not closed and a
\* tick already in it stays there
ShutdownTickerFires == Running /\ ~rateLimiter.stopped /\ TickerFires

ShutdownRefillReceives == Running /\ RefillReceives

\* lines 401-404 on a closed channel: the send case of a select panics with
\* "send on closed channel" whether or not there is a default case
ShutdownRefillSends ==
    /\ Running
    /\ rateLimiter.holding = 1
    /\ IF rateLimiter.closed
       THEN LimiterStep([rateLimiter EXCEPT !.panic = "send on closed channel"])
       ELSE RefillSends

ShutdownWaitCalled == Running /\ WaitCalled

\* Wait, line 413: a receive takes the permit the channel holds; on a closed
\* and empty channel it returns at once with the zero value
ShutdownWaitReturns ==
    /\ Running
    /\ rateLimiter.waiting > 0
    /\ IF rateLimiter.requests > 0
       THEN WaitReturns
       ELSE /\ rateLimiter.closed
            /\ LimiterStep([rateLimiter EXCEPT !.waiting = @ - 1, !.returned = @ + 1])

\* Close, line 418: rl.ticker.Stop()
CloseStopsTicker ==
    /\ Running
    /\ rateLimiter.closePc = "idle"
    /\ rateLimiter.closes < MaxCloses
    /\ LimiterStep([rateLimiter EXCEPT !.stopped = TRUE, !.closePc = "stopped"])

\* Close, line 419: close(rl.requests); closing a closed channel panics with
\* "close of closed channel"
CloseClosesChannel ==
    /\ Running
    /\ rateLimiter.closePc = "stopped"
    /\ IF rateLimiter.closed
       THEN LimiterStep([rateLimiter EXCEPT !.panic = "close of closed channel"])
       ELSE LimiterStep([rateLimiter EXCEPT !.closed = TRUE, !.closePc = "idle",
                                            !.closes = @ + 1])

NextShutdown ==
    \/ ShutdownTickerFires
    \/ ShutdownRefillReceives
    \/ ShutdownRefillSends
    \/ ShutdownWaitCalled
    \/ ShutdownWaitReturns
    \/ CloseStopsTicker
    \/ CloseClosesChannel

SpecShutdown == InitLimiter /\ [][NextShutdown]_vars

\* C21: a call of Close on a limiter that is already shut down completes
\* normally and leaves the limiter as the first Close left it: the step of
\* Close at close(rl.requests), taken when the channel is already closed,
\* raises no panic and changes nothing but the count of completed calls.
C21_CloseIdempotent ==
    [][(/\ rateLimiter.closed
        /\ rateLimiter.closePc = "stopped"
        /\ \/ rateLimiter'.closePc # rateLimiter.closePc
           \/ rateLimiter'.panic = "close of closed channel")
          => rateLimiter' = [rateLimiter EXCEPT !.closePc = "idle",
                                                !.closes = @ + 1]]_vars

\* C39: shutting the limiter down is safe at any moment: in no interleaving of
\* Close with the refill goroutine does the goroutine send on the closed permit
\* channel, a tick delivered before the ticker was stopped included.
C39_NoSendAfterClose == rateLimiter.panic # "send on closed channel"


(***************************************************************************)
(* uploadPackage on its own.  SpecUpload draws the archive file, the       *)
(* outcome of the transport, the status of the response and its body, and  *)
(* applies uploadPackage once.                                             *)
(***************************************************************************)
StatusOK == 200

StatusCreated == 201

StatusUnauthorized == 401

\* The statuses a repository answers with.
Statuses == {StatusOK, StatusCreated, 202, 204, 301, 400, StatusUnauthorized, 403, 404, 409,
             500, 503}

\* The body of the response: not JSON, or the envelope {success, message,
\* filename, size} of lines 1260-1265 with its success flag.
Bodies == {"undecodable", "success", "failure"}

\* An upload that accepts every 2xx status.
uploadPackageAny2xx(opened, sent, status, body) ==
    CASE ~opened -> "open-error"
      [] ~sent -> "transport-error"
      [] status = StatusUnauthorized -> "invalid-credentials"
      [] status < 200 \/ status > 299 -> "server-error"
      [] body = "undecodable" -> "decode-error"
      [] body = "failure" -> "operation-failed"
      [] OTHER -> "nil"

\* uploadPackage, lines 1203-1276.  opened: os.Open succeeded (line 1205);
\* sent: pm.httpClient.Do returned a response (line 1244).
uploadPackage(opened, sent, status, body) ==
    CASE ~opened -> "open-error"
      [] ~sent -> "transport-error"
      [] status = StatusUnauthorized -> "invalid-credentials"
      [] status # StatusCreated -> "server-error"
      [] body = "undecodable" -> "decode-error"
      [] body = "failure" -> "operation-failed"
      [] OTHER -> "nil"

\* One upload per behaviour: uploadPackage keeps no state between calls.
Upload ==
    /\ last.op = "start"
    /\ \E opened \in BOOLEAN, sent \in BOOLEAN, status \in Statuses, body \in Bodies :
          last' = [op |-> "upload", opened |-> opened, sent |-> sent, status |-> status,
                   body |-> body,
                   result |-> uploadPackage(opened, sent, status, body),
                   calls |-> IF opened THEN <<Call("upload", 0)>> ELSE <<>>]
    /\ UNCHANGED <<config, installedPackages, packagesJson, installDirs, ops, remote,
                   threads, rateLimiter, packagesMutex>>

SpecUpload == InitLimiter /\ [][Upload]_vars

\* A response arrived for the upload.
Answered == last.op = "upload" /\ last.opened /\ last.sent

\* C23 as stated: 401 is the invalid-credentials failure, every other status
\* but 201 the server-error failure, and a 201 response is a success whatever
\* else the response holds.
C23_CreatedAloneDecides ==
    Answered =>
        /\ last.status = StatusUnauthorized => last.result = "invalid-credentials"
        /\ last.status \notin {StatusUnauthorized, StatusCreated}
              => last.result = "server-error"
        /\ last.status = StatusCreated => last.result = "nil"

\* C23, amended: 401 is the invalid-credentials failure and every other
\* status but 201 the server-error failure, a 200 included; a 201 response is
\* a success exactly when its body decodes and its success flag is set, and a
\* failure of its own kind otherwise.
C23_CreatedAndEnvelopeDecide ==
    Answered =>
        /\ last.status = StatusUnauthorized <=> last.result = "invalid-credentials"
        /\ last.status \notin {StatusUnauthorized, StatusCreated}
              <=> last.result = "server-error"
        /\ last.result = "nil" <=> (last.status = StatusCreated /\ last.body = "success")
        /\ (last.status = StatusCreated /\ last.body = "failure")
              => last.result = "operation-failed"
        /\ (last.status = StatusCreated /\ last.body = "undecodable")
              => last.result = "decode-error"

\* C23 witness: a 201 response whose envelope says success = false.
C23_Witness ==
    /\ Answered
    /\ last.status = StatusCreated
    /\ last.body = "failure"
    /\ last.result = "operation-failed"


(***************************************************************************)
(* ListRepositoryPackages on its own.  SpecPaging draws the page and the   *)
(* limit of the request and records the query it sends.                    *)
(***************************************************************************)
DefaultLimit == 20

MaxLimit == 100

\* the pages requested range over -MaxPage..MaxPage
MaxPage == 3

\* the limits requested range from LimitSlack below 1 to LimitSlack above
\* MaxLimit
LimitSlack == 3

\* lines 1453-1455
clampPage(page) == IF page < 1 THEN 1 ELSE page

\* A clamp that also replaces the two ends of the range.
clampLimitExclusive(limit) == IF limit <= 1 \/ limit >= MaxLimit THEN DefaultLimit ELSE limit

\* lines 1456-1458
clampLimit(limit) == IF limit < 1 \/ limit > MaxLimit THEN DefaultLimit ELSE limit

\* line 1461: the query string of the request, "page=%d&limit=%d"
listURL(page, limit) == [page |-> clampPage(page), limit |-> clampLimit(limit)]

\* ListRepositoryPackages, lines 1452-1509, up to the request it sends.
ListRemote ==
    /\ last.op = "start"
    /\ \E page \in (0 - MaxPage)..MaxPage,
          limit \in (1 - LimitSlack)..(MaxLimit + LimitSlack) :
          last' = [op |-> "list-remote", page |-> page, limit |-> limit,
                   sent |-> listURL(page, limit),
                   calls |-> <<Call("list", 0)>>]
    /\ UNCHANGED <<config, installedPackages, packagesJson, installDirs, ops, remote,
                   threads, rateLimiter, packagesMutex>>

SpecPaging == InitLimiter /\ [][ListRemote]_vars

\* C24: the page sent is 1 when the requested page is below 1 and the
\* requested page otherwise; the limit sent is 20 when the requested limit is
\* below 1 or above 100 and the requested limit otherwise, so that 1 and 100
\* are sent unchanged.
C24_PagingClamped ==
    last.op = "list-remote" =>
        /\ last.page < 1 => last.sent.page = 1
        /\ last.page >= 1 => last.sent.page = last.page
        /\ (last.limit < 1 \/ last.limit > 100) => last.sent.limit = 20
        /\ (last.limit >= 1 /\ last.limit <= 100) => last.sent.limit = last.limit

\* C24 witness: the largest limit that is passed through, with a page that is
\* clamped.
C24_Witness ==
    /\ last.op = "list-remote"
    /\ last.limit = 100 /\ last.sent.limit = 100
    /\ last.page = 0 /\ last.sent.page = 1


(***************************************************************************)
(* The JSON form of a Repository (types.go).  A JSON object is a function  *)
(* from its keys to its values.  SpecRepositoryJson draws a Repository,    *)
(* serialises it and reads it back.                                        *)
(***************************************************************************)
\* the priorities drawn are 1..MaxPriority
MaxPriority == 3

\* type Repository, lines 74-80
RepositoryValues ==
    [Name : {"main", "extra", "mirror"}, URL : {"https://a", "https://b"},
     Priority : 1..MaxPriority, Enabled : BOOLEAN, Token : {"", "t1", "t2"}]

\* json.Marshal of a Repository: one key per field, named by the field's
\* json tag; the tag of Token is "token,omitempty", so the key token is left
\* out when the token is empty.
MarshalRepository(repo) ==
    LET always == [name |-> repo.Name, url |-> repo.URL, priority |-> repo.Priority,
                   enabled |-> repo.Enabled]
    IN IF repo.Token = "" THEN always ELSE always @@ ("token" :> repo.Token)

\* The value of a key of a JSON object, or the zero value of the field when
\* the object has no such key.
Field(data, key, zero) == IF key \in DOMAIN data THEN data[key] ELSE zero

\* json.Unmarshal into a Repository: each field is read from the key of its
\* json tag; other keys are ignored.
UnmarshalRepository(data) ==
    [Name |-> Field(data, "name", ""),
     URL |-> Field(data, "url", ""),
     Priority |-> Field(data, "priority", 0),
     Enabled |-> Field(data, "enabled", FALSE),
     Token |-> Field(data, "token", "")]

\* One round trip per behaviour.
RoundTrip ==
    /\ last.op = "start"
    /\ \E repo \in RepositoryValues :
          last' = [op |-> "json", repo |-> repo, data |-> MarshalRepository(repo),
                   back |-> UnmarshalRepository(MarshalRepository(repo)),
                   calls |-> <<>>]
    /\ UNCHANGED <<config, installedPackages, packagesJson, installDirs, ops, remote,
                   threads, rateLimiter, packagesMutex>>

SpecRepositoryJson == InitLimiter /\ [][RoundTrip]_vars

\* C25: a Repository written to JSON and read back has the same name and the
\* same token; the JSON object has the key auth_token exactly when the token
\* is not empty, and never has the key token.
C25_TokenUnderAuthToken ==
    last.op = "json" =>
        /\ last.back.Name = last.repo.Name
        /\ last.back.Token = last.repo.Token
        /\ "auth_token" \in DOMAIN last.data <=> last.repo.Token # ""
        /\ "token" \notin DOMAIN last.data


(***************************************************************************)
(* The repository client under resolve and search together.  SpecClient    *)
(* draws the configuration and what each repository serves as SpecResolve  *)
(* does, and makes one resolve or one search.                              *)
(***************************************************************************)
\* What a repository that serves answers of the given kind answers to a
\* search: the failure of the request, or the scores of its results.
SearchAnswer(kind) ==
    CASE kind = "ascending" -> [ok |-> TRUE, error |-> "", scores |-> <<1, MaxScore>>]
      [] kind = "builds" -> [ok |-> TRUE, error |-> "", scores |-> <<MaxScore>>]
      [] kind = "windows-only" -> [ok |-> TRUE, error |-> "", scores |-> <<>>]
      [] OTHER -> [ok |-> FALSE, error |-> kind, scores |-> <<>>]

SearchRemote ==
    LET out == SearchPackages(config.Repositories,
                              [i \in 1..Len(remote) |-> SearchAnswer(remote[i])])
    IN /\ last.op = "start"
       /\ last' = [op |-> "search", name |-> 0, version |-> NoVersion, global |-> FALSE,
                   force |-> FALSE, result |-> out.err, calls |-> out.calls,
                   resolved |-> NoVersion, results |-> out.results]
       /\ UNCHANGED <<config, installedPackages, packagesJson, installDirs, ops, remote,
                      threads, rateLimiter, packagesMutex>>

NextClient == Resolve \/ SearchRemote

SpecClient == InitResolve /\ [][NextClient]_vars

\* The request to repository i fails, whatever is asked.
RequestFails(i) == remote[i] \in {"transport", "status", "envelope"}

\* C28: a resolve or a search sends at most one call to each repository, none
\* to a disabled one, and exactly one to a repository whose request failed:
\* no call is repeated after a failure.
C28_NoRetry ==
    last.op \in {"resolve", "search"} =>
       \A i \in 1..Len(config.Repositories) :
          /\ Count(Contacted, i) <= 1
          /\ ~config.Repositories[i].Enabled => Count(Contacted, i) = 0
          /\ (RequestFails(i) /\ Count(Contacted, i) > 0) => Count(Contacted, i) = 1

\* C28 witness: every repository is enabled and every request fails: each
\* repository was asked once by the resolve, and the resolve failed.
C28_Witness ==
    /\ last.op = "resolve"
    /\ \A i \in 1..Len(config.Repositories) :
          config.Repositories[i].Enabled /\ RequestFails(i)
    /\ Contacted = <<1, 2, 3>>
    /\ last.result = "not-found"

\* C33: a disabled repository is never contacted: a resolve or a search sends
\* it no call and takes no permit for it; a search sends exactly one call to
\* every enabled repository, and a resolve none to a repository that is not
\* enabled.
C33_DisabledNeverContacted ==
    last.op \in {"resolve", "search"} =>
       /\ \A k \in 1..Len(last.calls) :
             /\ last.calls[k].repo \in 1..Len(config.Repositories)
             /\ config.Repositories[last.calls[k].repo].Enabled
       /\ last.op = "search" =>
             \A i \in 1..Len(config.Repositories) :
                Count(Contacted, i) = (IF config.Repositories[i].Enabled THEN 1 ELSE 0)

\* C33 witness: a search over a configuration whose first repository is
\* disabled and whose second fails: the two enabled repositories were asked
\* once each, the failing one included, and the disabled one was not asked.
C33_Witness ==
    /\ last.op = "search"
    /\ ~config.Repositories[1].Enabled
    /\ config.Repositories[2].Enabled /\ config.Repositories[3].Enabled
    /\ RequestFails(2)
    /\ Contacted = <<2, 3>>
    /\ \A k \in 1..Len(last.calls) : last.calls[k].permit


C36_MemoryMatchesDisk == loadInstalledPackages(packagesJson) = installedPackages

\* C38: every record of the registry refers to an install directory that
\* exists: no sequence of calls leaves in memory a record whose install
\* directory has been removed.
C38_RecordsHaveDirectories ==
    \A n \in DOMAIN installedPackages : installedPackages[n].InstallPath \in installDirs

(***************************************************************************)
(* Goroutines and the registry lock.  SpecLocking runs MaxThreads          *)
(* goroutines, each making one call of InstallPackage, UninstallPackage,   *)
(* GetPackageInfo or ListPackages, interleaved at every acquisition and    *)
(* release of packagesMutex, every access to the memory map and every      *)
(* blocking step (the wait for a permit, the HTTP calls, the file          *)
(* operations).  The extraction step either fails (extractArchive) or      *)
(* succeeds (a codec).  A read of the map that overlaps a write of the map  *)
(* is a data race: it observes any mix of fields or no record.             *)
(***************************************************************************)
\* An RLock that does not wait for the writer.
CanRLockAlways(mutex) == TRUE

\* sync.RWMutex.RLock returns when no goroutine holds the lock for writing
CanRLock(mutex) == mutex.w = 0

\* sync.RWMutex.Lock returns when no goroutine holds the lock at all
CanLock(mutex) == mutex.w = 0 /\ mutex.r = {}

RLock(mutex, t) == [mutex EXCEPT !.r = @ \cup {t}]

\* A return from getInstalledPackage that leaves the read lock held.
RUnlockNothing(mutex, t) == mutex

RUnlock(mutex, t) == [mutex EXCEPT !.r = @ \ {t}]

Lock(mutex, t) == [mutex EXCEPT !.w = t]

Unlock(mutex, t) == [mutex EXCEPT !.w = 0]

IdleCaller ==
    [pc |-> "idle", op |-> "", name |-> 0, global |-> FALSE, force |-> FALSE,
     info |-> EmptyMap, seen |-> {}, result |-> ""]

InitLocking ==
    /\ config = [Repositories |-> Repositories]
    /\ packagesJson \in ConcurrentStartDocs
    /\ installedPackages = loadInstalledPackages(packagesJson)
    /\ installDirs = {installedPackages[n].InstallPath : n \in DOMAIN installedPackages}
    /\ last = NoCall
    /\ ops = 0
    /\ remote = <<>>
    /\ rateLimiter = NewRateLimiter
    /\ packagesMutex = Unlocked
    /\ threads = [t \in Threads |-> IdleCaller]

\* Goroutine t moves to position pc.
Goto(t, pc) == threads' = [threads EXCEPT ![t] = [@ EXCEPT !.pc = pc]]

\* Goroutine t returns from its call.
Return(t, result) ==
    threads' = [threads EXCEPT ![t] = [@ EXCEPT !.pc = "done", !.result = result]]

\* Some goroutine is inside its write of the memory map.
MapBeingWritten == \E u \in Threads : threads[u].pc \in {"storing", "deleting"}

\* What a racing read can observe for a name.
RacyRecords(name) ==
    {[Name |-> name, Version |-> v, InstallPath |-> getInstallPath(name, g), Global |-> h] :
        v \in Versions, g \in BOOLEAN, h \in BOOLEAN}

\* A call begins.  An install is of the latest version, with or without
\* force; a forced install skips the already-installed check (line 542).
\* The arguments a call does not read are fixed.
Begin(t) ==
    /\ threads[t].pc = "idle"
    /\ \E op \in {"install", "uninstall", "get", "list"}, packageName \in PackageNames,
          global \in BOOLEAN, force \in BOOLEAN :
          /\ force => op = "install"
          /\ global => op # "get"
          /\ op = "list" => packageName = 1
          /\ threads' = [threads EXCEPT ![t] =
                [@ EXCEPT !.op = op, !.name = packageName, !.global = global,
                          !.force = force,
                          !.pc = CASE op = "list" -> "list-rlock"
                                   [] op = "install" /\ force -> "wait"
                                   [] OTHER -> "lookup-rlock"]]
    /\ UNCHANGED <<config, installedPackages, packagesJson, installDirs, last, ops, remote,
                   rateLimiter, packagesMutex>>

\* pm.packagesMutex.RLock(), lines 710 and 838
AcquireRead(t) ==
    /\ threads[t].pc \in {"lookup-rlock", "list-rlock"}
    /\ CanRLock(packagesMutex)
    /\ packagesMutex' = RLock(packagesMutex, t)
    /\ Goto(t, IF threads[t].pc = "list-rlock" THEN "list-read" ELSE "lookup-read")
    /\ UNCHANGED <<config, installedPackages, packagesJson, installDirs, last, ops, remote,
                   rateLimiter>>

\* getInstalledPackage, line 840: info, exists := pm.installedPackages[name]
ReadMap(t) ==
    /\ threads[t].pc = "lookup-read"
    /\ \E seen \in IF MapBeingWritten
                   THEN {{}} \cup {{r} : r \in RacyRecords(threads[t].name)}
                   ELSE {{installedPackages[n] : n \in DOMAIN installedPackages \cap
                                                         {threads[t].name}}} :
          threads' = [threads EXCEPT ![t] = [@ EXCEPT !.pc = "lookup-return",
                                                      !.seen = seen]]
    /\ UNCHANGED <<config, installedPackages, packagesJson, installDirs, last, ops, remote,
                   rateLimiter, packagesMutex>>

\* ListPackages, lines 713-728: the loop over the map and the sort of the
\* records appended
RangeMap(t) ==
    /\ threads[t].pc = "list-read"
    /\ \E seen \in IF MapBeingWritten
                   THEN {{}} \cup {{r} : r \in UNION {RacyRecords(n) : n \in PackageNames}}
                   ELSE {{installedPackages[n] : n \in
                             {m \in DOMAIN installedPackages :
                                 Kept(threads[t].global, installedPackages[m])}}} :
          threads' = [threads EXCEPT ![t] = [@ EXCEPT !.pc = "list-return", !.seen = seen]]
    /\ UNCHANGED <<config, installedPackages, packagesJson, installDirs, last, ops, remote,
                   rateLimiter, packagesMutex>>

\* defer pm.packagesMutex.RUnlock(), lines 711 and 839, and what the caller
\* does with the value returned: InstallPackage lines 542-548,
\* UninstallPackage lines 637-640, GetPackageInfo lines 735-739
ReleaseRead(t) ==
    /\ threads[t].pc \in {"lookup-return", "list-return"}
    /\ packagesMutex' = RUnlock(packagesMutex, t)
    /\ LET exists == threads[t].seen # {}
       IN CASE threads[t].op = "list" -> Return(t, "nil")
            [] threads[t].op = "get" ->
                 Return(t, IF exists THEN "nil" ELSE "not-installed")
            [] threads[t].op = "install" ->
                 IF exists THEN Return(t, "already-installed") ELSE Goto(t, "wait")
            [] OTHER ->
                 IF exists THEN Goto(t, "remove-files") ELSE Return(t, "not-installed")
    /\ UNCHANGED <<config, installedPackages, packagesJson, installDirs, last, ops, remote,
                   rateLimiter>>

\* findInRepository, line 873: pm.rateLimiter.Wait() returns
PermitGranted(t) ==
    /\ threads[t].pc = "wait"
    /\ Goto(t, "http")
    /\ UNCHANGED <<config, installedPackages, packagesJson, installDirs, last, ops, remote,
                   rateLimiter, packagesMutex>>

\* findInRepository, lines 875-948: the response arrives
Responded(t) ==
    /\ threads[t].pc = "http"
    /\ \E found \in BOOLEAN :
          IF found THEN Goto(t, "download") ELSE Return(t, "not-found")
    /\ UNCHANGED <<config, installedPackages, packagesJson, installDirs, last, ops, remote,
                   rateLimiter, packagesMutex>>

\* downloadPackage, lines 950-977
Downloaded(t) ==
    /\ threads[t].pc = "download"
    /\ \E ok \in BOOLEAN :
          IF ok THEN Goto(t, "unpack") ELSE Return(t, "download-error")
    /\ UNCHANGED <<config, installedPackages, packagesJson, installDirs, last, ops, remote,
                   rateLimiter, packagesMutex>>

\* InstallPackage, lines 571-619: extraction, manifest, install directory,
\* copy, and the record built from the manifest
Unpacked(t) ==
    /\ threads[t].pc = "unpack"
    /\ \E extracted \in {extractArchive, unpack([failAt |-> "none"])} :
          LET installPath == getInstallPath(threads[t].name, threads[t].global)
              manifest == [Name |-> threads[t].name, Version |-> MaxVersions]
          IN IF extracted
             THEN /\ threads' = [threads EXCEPT ![t] =
                        [@ EXCEPT !.pc = "save",
                                  !.info = NewPackageInfo(manifest, installPath,
                                                          threads[t].global)]]
                  /\ installDirs' = installDirs \cup {installPath}
             ELSE /\ Return(t, "extract-error")
                  /\ UNCHANGED installDirs
    /\ UNCHANGED <<config, installedPackages, packagesJson, last, ops, remote,
                   rateLimiter, packagesMutex>>

\* InstallPackage, lines 621-624: savePackageInfo
Saved(t) ==
    /\ threads[t].pc = "save"
    /\ packagesJson' = savePackageInfo(packagesJson, threads[t].info, "ok").docs
    /\ Goto(t, "publish-lock")
    /\ UNCHANGED <<config, installedPackages, installDirs, last, ops, remote,
                   rateLimiter, packagesMutex>>

\* UninstallPackage, lines 642-645: os.RemoveAll(packageInfo.InstallPath)
RemovedFiles(t) ==
    /\ threads[t].pc = "remove-files"
    /\ installDirs' = installDirs \ {r.InstallPath : r \in threads[t].seen}
    /\ Goto(t, "remove-doc")
    /\ UNCHANGED <<config, installedPackages, packagesJson, last, ops, remote,
                   rateLimiter, packagesMutex>>

\* UninstallPackage, lines 647-650: removePackageInfo
RemovedDoc(t) ==
    /\ threads[t].pc = "remove-doc"
    /\ packagesJson' = removePackageInfo(packagesJson, threads[t].name, threads[t].global,
                                         "ok").docs
    /\ Goto(t, "unpublish-lock")
    /\ UNCHANGED <<config, installedPackages, installDirs, last, ops, remote,
                   rateLimiter, packagesMutex>>

\* pm.packagesMutex.Lock(), lines 627 and 653
AcquireWrite(t) ==
    /\ threads[t].pc \in {"publish-lock", "unpublish-lock"}
    /\ CanLock(packagesMutex)
    /\ packagesMutex' = Lock(packagesMutex, t)
    /\ Goto(t, IF threads[t].pc = "publish-lock" THEN "storing" ELSE "deleting")
    /\ UNCHANGED <<config, installedPackages, packagesJson, installDirs, last, ops, remote,
                   rateLimiter>>

\* line 628: pm.installedPackages[packageName] = packageInfo; line 654:
\* delete(pm.installedPackages, packageName)
WriteMap(t) ==
    /\ threads[t].pc \in {"storing", "deleting"}
    /\ installedPackages' =
          IF threads[t].pc = "storing"
          THEN MapPut(installedPackages, threads[t].name, threads[t].info)
          ELSE MapDelete(installedPackages, threads[t].name)
    /\ Goto(t, IF threads[t].pc = "storing" THEN "stored" ELSE "deleted")
    /\ UNCHANGED <<config, packagesJson, installDirs, last, ops, remote, rateLimiter,
                   packagesMutex>>

\* pm.packagesMutex.Unlock(), lines 629 and 655, and the return
ReleaseWrite(t) ==
    /\ threads[t].pc \in {"stored", "deleted"}
    /\ packagesMutex' = Unlock(packagesMutex, t)
    /\ Return(t, "nil")
    /\ UNCHANGED <<config, installedPackages, packagesJson, installDirs, last, ops, remote,
                   rateLimiter>>

NextLocking ==
    \E t \in Threads :
       \/ Begin(t)
       \/ AcquireRead(t)
       \/ ReadMap(t)
       \/ RangeMap(t)
       \/ ReleaseRead(t)
       \/ PermitGranted(t)
       \/ Responded(t)
       \/ Downloaded(t)
       \/ Unpacked(t)
       \/ Saved(t)
       \/ RemovedFiles(t)
       \/ RemovedDoc(t)
       \/ AcquireWrite(t)
       \/ WriteMap(t)
       \/ ReleaseWrite(t)

SpecLocking == InitLocking /\ [][NextLocking]_vars

\* Goroutine t holds the registry lock, for reading or for writing.
Holds(t) == packagesMutex.w = t \/ t \in packagesMutex.r

\* The positions at which a goroutine waits for a permit, has an HTTP call
\* in flight, or reads or writes files.
Blocking == {"wait", "http", "download", "unpack", "save", "remove-files", "remove-doc"}

\* The positions inside an access to the memory map.
InMemory ==
    {"lookup-read", "lookup-return", "list-read", "list-return", "storing", "stored",
     "deleting", "deleted"}

\* C29: no goroutine holds the registry lock, for reading or for writing,
\* while it waits for a permit, has an HTTP call in flight or reads or writes
\* files: a goroutine that holds the lock is inside an access to the memory
\* map.
C29_NoLockAcrossBlocking ==
    \A t \in DOMAIN threads :
       /\ threads[t].pc \in Blocking => ~Holds(t)
       /\ Holds(t) => threads[t].pc \in InMemory

\* C29 witness: one goroutine has its lookup request in flight while the
\* other holds the lock for writing, inside its store to the map.
C29_Witness ==
    /\ DOMAIN threads = Threads
    /\ threads[1].pc = "http"
    /\ threads[2].pc = "storing"
    /\ packagesMutex.w = 2

\* The records that were built as a whole: the install path is the one of
\* the record's own name and scope.
WholeRecords ==
    {StoredInfo(n, v, b) : n \in PackageNames, v \in Versions, b \in BOOLEAN}

\* C30: the memory map changes only in a step of the goroutine that holds
\* the lock for writing, with no reader inside, one entry at a time and by a
\* whole record; no goroutine is inside a read of the map while another is
\* inside a write; and what a get or a list observes is, for each name, the
\* whole record the map holds at that moment or no record, never a mix of the
\* fields of two records.
C30_ReadersSeeWholeRecords ==
    [][/\ installedPackages' # installedPackages =>
             /\ packagesMutex.w # 0 /\ packagesMutex.r = {}
             /\ \E n \in PackageNames :
                   /\ \A m \in PackageNames \ {n} :
                         getInstalledPackage(installedPackages', m)
                            = getInstalledPackage(installedPackages, m)
                   /\ n \in DOMAIN installedPackages' =>
                         installedPackages'[n] \in WholeRecords
       /\ \A t \in DOMAIN threads' :
             /\ threads'[t].seen \subseteq WholeRecords
             /\ threads'[t].pc \in {"lookup-read", "list-read"} =>
                   \A u \in DOMAIN threads' : threads'[u].pc \notin {"storing", "deleting"}
             /\ (threads[t].pc = "lookup-read" /\ threads'[t].pc = "lookup-return") =>
                   threads'[t].seen =
                      {installedPackages[n] : n \in DOMAIN installedPackages \cap
                                                      {threads[t].name}}
             /\ (threads[t].pc = "list-read" /\ threads'[t].pc = "list-return") =>
                   threads'[t].seen =
                      {installedPackages[n] : n \in
                          {m \in DOMAIN installedPackages :
                              installedPackages[m].Global = threads[t].global}}]_vars

\* C30 witness: a forced install replaced the global record of a name by a
\* local record of a later version, and a get of that name by the other
\* goroutine returned the new record.
C30_Witness ==
    /\ DOMAIN threads = Threads
    /\ threads[1].op = "get" /\ threads[1].pc = "done"
    /\ threads[1].seen = {StoredInfo(1, MaxVersions, FALSE)}
    /\ threads[2].op = "install" /\ threads[2].pc = "done" /\ threads[2].result = "nil"
    /\ threads[2].name = 1
    /\ 1 \in DOMAIN packagesJson[TRUE].packages

\* The positions of an install between its already-installed check and its
\* return.
PastCheck ==
    {"wait", "http", "download", "unpack", "save", "publish-lock", "storing", "stored"}

\* C37: the already-installed check and the registration are atomic with
\* respect to other installs of the same name: of two unforced installs of one
\* package that run concurrently at most one passes the check; they are never
\* both past it on their way to the download and the registration, and they
\* never both register.
C37_CheckAndRegisterAtomic ==
    \A t \in DOMAIN threads, u \in DOMAIN threads :
       (/\ t # u
        /\ threads[t].op = "install" /\ ~threads[t].force
        /\ threads[u].op = "install" /\ ~threads[u].force
        /\ threads[t].name = threads[u].name)
       => /\ ~(threads[t].pc \in PastCheck /\ threads[u].pc \in PastCheck)
          /\ ~(threads[t].result = "nil" /\ threads[u].result = "nil")

(***************************************************************************)
(* The MCP server, src/unnamed/part_001: Run reads messages from stdin and *)
(* writes the responses to stdout.  It runs on the main goroutine, which   *)
(* is threads[1] here: pc is its position in the loop, decoder and encoder *)
(* are the locals of Run with the stream each one wraps, message and       *)
(* response are the locals of one iteration and logged counts the lines    *)
(* written by log.Printf.  stdin holds at most MaxMessages values and then *)
(* ends; a run logs at most MaxLogs lines.                                 *)
(***************************************************************************)
MaxMessages == 3

MaxLogs == 2

MaxId == 2

\* MCPError.Code of handleMessage, line 129, and of handleToolsCall, line 412
MethodNotFound == -32601

InvalidParams == -32602

\* A value on stdin: an MCPMessage (params tells whether its params fit
\* CallToolParams), a well-formed JSON value that does not fit MCPMessage,
\* or text that is not JSON.
NoMessage == [kind |-> "none", id |-> 0, method |-> "", params |-> TRUE]

StdinValues ==
    {[kind |-> "message", id |-> i, method |-> m, params |-> TRUE] :
        i \in 1..MaxId, m \in {"initialize", "tools/list", "tools/call", "ping"}}
    \cup {[kind |-> "message", id |-> i, method |-> "tools/call", params |-> FALSE] :
             i \in 1..MaxId}
    \cup {[NoMessage EXCEPT !.kind = k] : k \in {"mistyped", "malformed"}}

\* json.Decoder.Decode: an error of the reader or of the scanner is kept in
\* the decoder and returned by every later call, which reads nothing; a value
\* that is well formed is consumed whether or not it fits the target.
DecodeSkipsBadText(decoder) ==
    IF decoder.scanp = Len(decoder.stdin)
    THEN [decoder |-> [decoder EXCEPT !.err = "EOF"], err |-> "EOF", message |-> NoMessage]
    ELSE LET value == decoder.stdin[decoder.scanp + 1]
             read  == [decoder EXCEPT !.scanp = @ + 1]
         IN  IF value.kind = "message"
             THEN [decoder |-> read, err |-> "", message |-> value]
             ELSE [decoder |-> read, err |-> value.kind, message |-> NoMessage]

Decode(decoder) ==
    IF decoder.err # ""
    THEN [decoder |-> decoder, err |-> decoder.err, message |-> NoMessage]
    ELSE IF decoder.scanp = Len(decoder.stdin)
    THEN [decoder |-> [decoder EXCEPT !.err = "EOF"], err |-> "EOF", message |-> NoMessage]
    ELSE LET value == decoder.stdin[decoder.scanp + 1]
             read  == [decoder EXCEPT !.scanp = @ + 1]
         IN  CASE value.kind = "malformed" ->
                    [decoder |-> [decoder EXCEPT !.err = "malformed"],
                     err |-> "malformed", message |-> NoMessage]
               [] value.kind = "mistyped" ->
                    [decoder |-> read, err |-> "mistyped", message |-> NoMessage]
               [] OTHER -> [decoder |-> read, err |-> "", message |-> value]

\* handleMessage, lines 116-134, with handleInitialize, handleToolsList and
\* handleToolsCall: every branch returns a response that carries message.ID;
\* code is 0 for a response with a result.
handleMessage(message) ==
    [id   |-> message.id,
     code |-> CASE message.method \in {"initialize", "tools/list"} -> 0
                [] message.method = "tools/call" ->
                     IF message.params THEN 0 ELSE InvalidParams
                [] OTHER -> MethodNotFound]

NoResponse == [id |-> 0, code |-> 0]

\* main, lines 76-79, and Run, lines 97-98
InitServer ==
    /\ config = [Repositories |-> Repositories]
    /\ installedPackages = EmptyMap
    /\ packagesJson = [b \in BOOLEAN |-> MissingDoc]
    /\ installDirs = {}
    /\ last = NoCall
    /\ ops = 0
    /\ remote = <<>>
    /\ \E stdin \in SeqsUpTo(StdinValues, MaxMessages) :
          threads = <<[pc |-> "decode",
                       decoder |-> [stdin |-> stdin, scanp |-> 0, err |-> ""],
                       message |-> NoMessage, response |-> NoResponse,
                       encoder |-> <<>>, logged |-> 0]>>
    /\ rateLimiter = NewRateLimiter
    /\ packagesMutex = Unlocked

RunStep(main) ==
    /\ threads' = <<main>>
    /\ UNCHANGED <<config, installedPackages, packagesJson, installDirs, last, ops, remote,
                   rateLimiter, packagesMutex>>

\* lines 101-105: the next message is decoded; on an error the loop logs it
\* and continues
RunDecodes ==
    /\ threads[1].pc = "decode"
    /\ LET decoded == Decode(threads[1].decoder)
       IN  IF decoded.err # ""
           THEN /\ threads[1].logged < MaxLogs
                /\ RunStep([threads[1] EXCEPT !.decoder = decoded.decoder,
                                              !.logged = @ + 1])
           ELSE RunStep([threads[1] EXCEPT !.decoder = decoded.decoder,
                                           !.message = decoded.message,
                                           !.pc = "handle"])

\* line 107: handleMessage runs on the goroutine of Run and returns the
\* response; a tool call waits in it for its permits and its answers
RunHandles ==
    /\ threads[1].pc = "handle"
    /\ RunStep([threads[1] EXCEPT !.response = handleMessage(threads[1].message),
                                  !.pc = "encode"])

\* lines 108-112: the response is written to stdout
RunEncodes ==
    /\ threads[1].pc = "encode"
    /\ RunStep([threads[1] EXCEPT !.encoder = Append(@, threads[1].response),
                                  !.message = NoMessage, !.response = NoResponse,
                                  !.pc = "decode"])

NextServer == RunDecodes \/ RunHandles \/ RunEncodes

SpecServer == InitServer /\ [][NextServer]_vars

\* the messages decoded so far, in the order received
Decoded ==
    SelectSeq(SubSeq(threads[1].decoder.stdin, 1, threads[1].decoder.scanp),
              LAMBDA value : value.kind = "message")

\* C31: requests are served in parallel: while a request is in progress and
\* the next one is waiting on stdin, the server can start the next one.
C31_ServedInParallel ==
    (/\ threads[1].pc = "handle"
     /\ threads[1].decoder.scanp < Len(threads[1].decoder.stdin)
     /\ threads[1].decoder.stdin[threads[1].decoder.scanp + 1].kind = "message")
    => ENABLED RunDecodes

\* the loop of Run is at one of its three steps and, short of the bound on
\* the lines logged, has a next step
LoopRuns ==
    /\ threads[1].pc \in {"decode", "handle", "encode"}
    /\ threads[1].logged < MaxLogs => ENABLED NextServer

\* stdout holds the responses to the messages decoded, in the order received;
\* only the message in progress has none yet
OneResponseEach ==
    /\ Len(threads[1].encoder) =
          Len(Decoded) - (IF threads[1].pc = "decode" THEN 0 ELSE 1)
    /\ \A i \in 1..Len(threads[1].encoder) :
          threads[1].encoder[i] = handleMessage(Decoded[i])

\* once the decoder keeps an error nothing is read and nothing is written
SilentAfterEnd ==
    threads[1].decoder.err # ""
    => /\ threads'[1].decoder = threads[1].decoder
       /\ threads'[1].encoder = threads[1].encoder
       /\ threads'[1].pc = "decode"

\* C40 (as stated): the loop of Run never ends; a failing decode, the end of
\* input included, is logged and retried and consumes nothing; after the end
\* of input no response is written; every decoded message gets exactly one
\* response, in the order received.
C40_FailedDecodeConsumesNothing ==
    /\ [](LoopRuns /\ OneResponseEach)
    /\ [][/\ SilentAfterEnd
          /\ threads'[1].logged # threads[1].logged
             => /\ threads'[1].pc = "decode"
                /\ threads'[1].encoder = threads[1].encoder
                /\ threads'[1].decoder.scanp = threads[1].decoder.scanp]_vars

\* C40 (amended): the loop of Run never ends; a failing decode is logged and
\* retried and writes no response; it consumes nothing when the text is not
\* JSON or the input has ended, and that error then comes back on every later
\* decode, while a well-formed value that does not fit MCPMessage is consumed
\* by the failing decode and the loop goes on with the next value; after the
\* end of input no response is written; every decoded message gets exactly
\* one response, in the order received.
C40_FailedDecodeKeepsBadTextOnly ==
    /\ [](LoopRuns /\ OneResponseEach)
    /\ [][/\ SilentAfterEnd
          /\ threads'[1].logged # threads[1].logged
             => /\ threads'[1].pc = "decode"
                /\ threads'[1].encoder = threads[1].encoder
                /\ IF threads'[1].decoder.err # ""
                   THEN /\ threads'[1].decoder.scanp = threads[1].decoder.scanp
                        /\ \/ threads[1].decoder.scanp = Len(threads[1].decoder.stdin)
                           \/ threads[1].decoder.stdin[threads[1].decoder.scanp + 1].kind
                                 = "malformed"
                   ELSE /\ threads'[1].decoder.scanp = threads[1].decoder.scanp + 1
                        /\ threads[1].decoder.stdin[threads'[1].decoder.scanp].kind
                              = "mistyped"]_vars

\* C40 witness: a value that does not fit MCPMessage was consumed without a
\* response, a later message was answered, the input ended and the loop is
\* still decoding.
C40_Witness ==
    /\ threads[1].decoder.err = "EOF"
    /\ threads[1].pc = "decode"
    /\ threads[1].logged = MaxLogs
    /\ Len(threads[1].decoder.stdin) > 1
    /\ threads[1].decoder.stdin[1].kind = "mistyped"
    /\ Len(threads[1].encoder) >= 1
    /\ Len(threads[1].encoder) < threads[1].decoder.scanp

(***************************************************************************)
(* The temporary artifacts of an install: the archive downloadPackage      *)
(* writes under pm.config.TempPath and the directory the archive is        *)
(* unpacked into.  Under SpecTemp installDirs holds the paths that exist   *)
(* under TempPath; a call finds TempPath empty or holding what an earlier  *)
(* process left there, meets the failure drawn for it, and runs with       *)
(* extractArchive or with a codec, in a build for Linux or for Windows     *)
(* (the two targets of the Makefile).  The errors of os.Remove and         *)
(* os.RemoveAll are not read by the code.                                  *)
(***************************************************************************)
\* line 962 and line 572 (the time stamp of the directory name is left out)
TempFile(packageName, version) == <<"tmp", packageName, version>>

TempDir(packageName) == <<"install", packageName>>

\* The steps of downloadPackage and of InstallPackage that can fail.
TempFailPoints ==
    {"none", "find", "get", "status", "create", "body", "extract", "manifest",
     "removeAll", "mkdir", "copy", "save"}

\* os.Remove of a file that the process still has open: the file is unlinked
\* on Linux; on Windows os.Create opens it without FILE_SHARE_DELETE and the
\* removal fails with a sharing violation.
RemoveOpenFile(temp, path, goos) == IF goos = "windows" THEN temp ELSE temp \ {path}

\* downloadPackage, lines 950-977: temp is the content of TempPath, created
\* the paths the call created.  On a failing io.Copy the file is removed
\* (line 972) before the deferred file.Close() (line 968) has run.
downloadPackage(temp, packageName, version, failAt, goos) ==
    LET tempFile == TempFile(packageName, version)
    IN  CASE failAt \in {"get", "status", "create"} ->
               [ok |-> FALSE, path |-> <<>>, temp |-> temp, created |-> {}]
          [] failAt = "body" ->
               [ok |-> FALSE, path |-> <<>>,
                temp |-> RemoveOpenFile(temp \cup {tempFile}, tempFile, goos),
                created |-> {tempFile}]
          [] OTHER ->
               [ok |-> TRUE, path |-> tempFile, temp |-> temp \cup {tempFile},
                created |-> {tempFile}]

\* InstallPackage, lines 559-631, as far as TempPath goes: the two deferred
\* calls (lines 569 and 573) run on every return after the download, the
\* later one first, when the archive is closed.
InstallPackageTemp(temp, packageName, version, failAt, codec, goos) ==
    LET archive == downloadPackage(temp, packageName, version, failAt, goos)
        tempDir == TempDir(packageName)
        \* line 575: a codec creates tempDir, extractArchive creates nothing
        unpacked == IF codec THEN archive.temp \cup {tempDir} ELSE archive.temp
        deferred == (unpacked \ {tempDir}) \ {archive.path}
        result == CASE failAt = "find" -> "not-found"
                    [] ~archive.ok -> "download-error"
                    [] ~codec \/ failAt = "extract" -> "extract-error"
                    [] failAt = "none" -> "ok"
                    [] OTHER -> failAt \o "-error"
    IN  CASE failAt = "find" -> [result |-> result, temp |-> temp, created |-> {}]
          [] ~archive.ok ->
               [result |-> result, temp |-> archive.temp, created |-> archive.created]
          [] OTHER ->
               [result |-> result, temp |-> deferred,
                created |-> archive.created \cup (IF codec THEN {tempDir} ELSE {})]

InitTemp ==
    /\ config = [Repositories |-> Repositories]
    /\ installedPackages = EmptyMap
    /\ packagesJson = [b \in BOOLEAN |-> MissingDoc]
    /\ installDirs \in SUBSET ({TempFile(n, v) : n \in PackageNames, v \in Versions}
                                  \cup {TempDir(n) : n \in PackageNames})
    /\ last = NoCall
    /\ ops = 0
    /\ remote = <<>>
    /\ threads = <<>>
    /\ rateLimiter = NewRateLimiter
    /\ packagesMutex = Unlocked

\* One install per behaviour.
InstallTemp ==
    /\ last.op = "start"
    /\ \E packageName \in PackageNames, version \in Versions, failAt \in TempFailPoints,
          codec \in BOOLEAN, goos \in {"linux", "windows"} :
          LET out == InstallPackageTemp(installDirs, packageName, version, failAt, codec,
                                        goos)
          IN  /\ installDirs' = out.temp
              /\ last' = [op |-> "install", name |-> packageName, version |-> version,
                          result |-> out.result, calls |-> <<>>, failAt |-> failAt,
                          codec |-> codec, goos |-> goos, created |-> out.created,
                          before |-> installDirs]
    /\ UNCHANGED <<config, installedPackages, packagesJson, ops, remote, threads,
                   rateLimiter, packagesMutex>>

SpecTemp == InitTemp /\ [][InstallTemp]_vars

\* C32: whatever the exit path of an install, the archive file and the
\* extraction directory it created no longer exist when it returns: a download
\* that fails while the body is copied leaves no file, every return after the
\* download leaves neither the archive nor the directory, and nothing the call
\* added to TempPath stays.
C32_TempArtifactsGone ==
    last.op = "install" =>
       /\ last.created \cap installDirs = {}
       /\ installDirs \subseteq last.before
       /\ last.failAt = "body" => TempFile(last.name, last.version) \notin installDirs
       /\ last.result \notin {"not-found", "download-error"}
          => /\ TempFile(last.name, last.version) \notin installDirs
             /\ TempDir(last.name) \notin installDirs

\* The same on a Linux build alone: there every exit path leaves TempPath
\* without the artifacts of the call.
C32_GoneOnLinux == last.op = "install" /\ last.goos = "linux" => C32_TempArtifactsGone

=============================================================================
